---- MODULE Spec2Model ----
\* TrendAI (babo-crypto/DollarJapan): feature engine, label generator and the
\* walk-forward training workflow of src/python, as state machines.
\*
\*   Spec    the training workflow: main() of train_model.py, with
\*           walk_forward_validation, the acceptance gate,
\*           train_with_walk_forward and save_model.
\*   SpecLG  label_generator.py: generate_labels_with_metadata on one history.
\*   SpecFE  feature_engineering.py: build_features on two histories that
\*           agree up to a bar.
\*   SpecPD  the data path of main(): prepare_data, and the matrices that
\*           walk_forward_validation and train_with_walk_forward give to
\*           their models.
\*
\* Units.  Timestamps are whole hours.  Accuracy is in percent points.
\* Prices are whole pips (pip_value = 0.01), so a move "in pips" is a
\* difference of prices.  Ratios and indicator values are fixed point, FP_SCALE to the unit.
EXTENDS Integers, Sequences, FiniteSets, TLC

VARIABLES
    \* ---- training workflow (train_model.py) ----
    df,             \* timestamp column of df_features, in row order (sorted)
    has_timestamp,  \* 'timestamp' in df.columns
    timestamp_dtype,  \* dtype of the 'timestamp' column of the caller's table
    n_splits, train_months, test_months,  \* arguments of walk_forward_validation
    pc,             \* phase of the run
    start_date,     \* df.index.min()
    fold,           \* loop variable of walk_forward_validation
    train_data, test_data,  \* rows (positions in df) of this fold's split
    scaler,         \* the fold's StandardScaler
    model,          \* the fold's LGBMClassifier
    X_test_scaled,  \* scaler.transform(X_test)
    y_pred,         \* the fold's thresholded predictions, by their accuracy
    results,        \* list of per-fold metrics
    wf_results,     \* DataFrame returned to main
    windows,        \* history: one record per fold constructed
    fit_log,        \* history: folds for which model.fit ran
    trainer,        \* ModelTrainer: self.scaler, self.model
    twf_fold,       \* loop variable of train_with_walk_forward
    saved,          \* files written by save_model
    \* ---- label generator (label_generator.py) ----
    lg_df,          \* candles passed to generate_labels_with_metadata
    lg_pkd,         \* its price_kumo_distance argument
    lg_atr,         \* its atr argument
    label_data,     \* the DataFrame it returns (<<>> before the call)
    \* ---- feature engine (feature_engineering.py) ----
    candles,        \* a candle history
    candles2,       \* a second history, equal to the first on bars 1..agree_upto
    agree_upto,
    df_features,    \* build_features(candles)  (<<>> before the call)
    df_features2,   \* build_features(candles2)
    fe_error,       \* the exception build_features(candles) raised, or "none"
    \* ---- data handed to the models (train_model.py: main) ----
    raw_df,         \* the candles main loads
    pd_pc,          \* position of main
    pd_X, pd_y,     \* X, y returned by prepare_data
    pd_df_features, \* df_features returned by prepare_data
    pd_bars,        \* the bar of raw_df each returned sample comes from
    wf_columns,     \* columns of the frame inside walk_forward_validation
    FEATURES,       \* its feature column list
    pd_fold,        \* loop variable of the validation in progress
    pd_scored,      \* folds walk_forward_validation scored
    model_inputs,   \* history: the matrices given to model.fit / predict
    \* ---- scoring (train_model.py: metrics of a fold, trading metrics) ----
    ev_pc,          \* position of the caller
    ev_folds,       \* per fold: y_test and the model's y_pred_proba
    ev_fold,        \* loop variable of walk_forward_validation
    ev_rng,         \* numpy's global generator: the draws it has yet to give
    ev_rng0,        \* history: the generator at the entry of the harness
    ev_results,     \* results of walk_forward_validation
    ev_y, ev_proba, \* y and the model's output, of a call of evaluate_model
    ev_metrics,     \* what evaluate_model returned (<<>> before the call)
    ev_trading,     \* what calculate_trading_metrics returned
    \* ---- export (export_onnx.py) ----
    ex_pc,          \* position of the caller of the exporter
    ex_models_dir,  \* files of the models directory
    ex_call,        \* how the exporter is driven
    exporter,       \* ONNXExporter: model, scaler_params, model_type
    ex_error,       \* the exception that ended the export, or "none"
    \* ---- data collection (collect_data.py: main) ----
    cd_pc,          \* position of main
    cd_env,         \* what each source does when it is asked
    cd_df,          \* main's df
    cd_method_used, \* main's method_used
    cd_attempts,    \* history: the sources asked, in order
    cd_saved        \* the file written

wfvars == <<df, has_timestamp, timestamp_dtype, n_splits, train_months, test_months, pc,
            start_date, fold, train_data, test_data, scaler, model,
            X_test_scaled, y_pred,
            results, wf_results, windows, fit_log, trainer, twf_fold, saved>>

lgvars == <<lg_df, lg_pkd, lg_atr, label_data>>

fevars == <<candles, candles2, agree_upto, df_features, df_features2, fe_error>>

pdvars == <<raw_df, pd_pc, pd_X, pd_y, pd_df_features, pd_bars, wf_columns,
            FEATURES, pd_fold, pd_scored, model_inputs>>

evvars == <<ev_pc, ev_folds, ev_fold, ev_rng, ev_rng0, ev_results, ev_y, ev_proba,
            ev_metrics, ev_trading>>

exvars == <<ex_pc, ex_models_dir, ex_call, exporter, ex_error>>

cdvars == <<cd_pc, cd_env, cd_df, cd_method_used, cd_attempts, cd_saved>>

vars == <<wfvars, lgvars, fevars, pdvars, evvars, exvars, cdvars>>

\* ------------------------------------------------------------------
\* Program constants
\* ------------------------------------------------------------------
HoursPerDay == 24
DaysPerMonth == 30
MinTestSamples == 100
AcceptAccuracy == 55
DefaultSplits == 5
DefaultTrainMonths == 6
DefaultTestMonths == 1
FinalSplits == 5

\* ------------------------------------------------------------------
\* Bounds of the model
\* ------------------------------------------------------------------
\* n_splits of the calls other than main's default one
MaxSplits == 2
\* train_months and test_months of those calls
MaxMonths == 2

\* ------------------------------------------------------------------
\* Helpers
\* ------------------------------------------------------------------
RECURSIVE SumSeq(_)
SumSeq(s) == IF s = <<>> THEN 0 ELSE Head(s) + SumSeq(Tail(s))

SetMin(S) == CHOOSE x \in S : \A y \in S : x <= y
SetMax(S) == CHOOSE x \in S : \A y \in S : x >= y

\* ------------------------------------------------------------------
\* walk_forward_validation: fold windows
\* ------------------------------------------------------------------
timedelta(days) == days * HoursPerDay

\* mutant: the fold number is left out, every fold gets the first window
train_end_date_nofold(start, tm, f) == start + timedelta(DaysPerMonth * tm)

train_end_date(start, tm, f) == start + timedelta(DaysPerMonth * tm * (f + 1))

test_start_date(start, tm, f) == train_end_date(start, tm, f)

test_end_date(start, tm, testm, f) ==
    test_start_date(start, tm, f) + timedelta(DaysPerMonth * testm)

\* df.loc[:hi] and df.loc[lo:hi] on a sorted DatetimeIndex: label slices,
\* both ends included
loc_upto(d, hi) == {i \in 1..Len(d) : d[i] <= hi}
loc_between(d, lo, hi) == {i \in 1..Len(d) : lo <= d[i] /\ d[i] <= hi}

TrainRows(d, start, tm, f) == loc_upto(d, train_end_date(start, tm, f))
TestRows(d, start, tm, testm, f) ==
    loc_between(d, test_start_date(start, tm, f), test_end_date(start, tm, testm, f))

\* mutant: "break" instead of "continue"
skip_break(f, n) == n

\* "continue": the loop goes on with the next fold
skip_continue(f, n) == f + 1

\* the 'timestamp' column of a table holds strings (dtype object, as
\* read_csv leaves it) or Timestamps (datetime64[ns], after load_data)
TimestampDtypes == {"object", "datetime64[ns]"}
NoColumn == "absent"

\* pd.to_datetime(column): strings are parsed, Timestamps are kept
to_datetime(dtype) == IF dtype \in TimestampDtypes THEN "datetime64[ns]" ELSE dtype

\* feature_engineering.py: the columns of X, in order
FEATURE_LIST_V1 ==
    <<"tenkan_slope", "kijun_slope", "cloud_thickness", "price_kumo_distance",
      "chikou_relative_position", "atr_normalized", "adx", "tick_volume_spike",
      "broker_hour", "session_id", "spread", "candle_compression",
      "momentum_strength", "relative_kumo_strength", "regime_flag">>

\* StandardScaler.fit(X): the statistics are those of the rows of X
scaler_fit(rows) == [fitted |-> TRUE, fit_rows |-> rows, n_samples_seen |-> Cardinality(rows)]
NoScaler == [fitted |-> FALSE, fit_rows |-> {}, n_samples_seen |-> 0]

\* StandardScaler.mean_ and scale_: one statistic for each column of X, known
\* by its column and the rows it was computed on
mean_(sc) ==
    [k \in 1..Len(FEATURE_LIST_V1) |->
        [stat |-> "mean", column |-> FEATURE_LIST_V1[k], rows |-> sc.fit_rows]]
scale_(sc) ==
    [k \in 1..Len(FEATURE_LIST_V1) |->
        [stat |-> "std", column |-> FEATURE_LIST_V1[k], rows |-> sc.fit_rows]]

\* save_model, lines 366-369: the content of scaler.json
scaler_data(sc) == [means |-> mean_(sc), stds |-> scale_(sc)]
NoScalerData == [means |-> <<>>, stds |-> <<>>]

\* StandardScaler.transform(X): the rows of X, standardized with the
\* statistics the scaler holds
scaler_transform(sc, rows) == [rows |-> rows, stats_rows |-> sc.fit_rows]
NoScaled == [rows |-> {}, stats_rows |-> {}]

\* LGBMClassifier.fit(X, y): opaque, known by the rows it was fit on
model_fit(rows) == [fitted |-> TRUE, fit_rows |-> rows]
NoModel == [fitted |-> FALSE, fit_rows |-> {}]

\* accuracy_score(y_test, y_pred) of the opaque model's predictions: any
\* share of the test rows may be predicted right
AccuracyChoices == {40, 70}

\* results_df['accuracy'].mean(), in percent points, rounded down
mean_accuracy(r) == SumSeq([i \in 1..Len(r) |-> r[i].accuracy]) \div Len(r)

\* mutant: an empty result passes the gate
validation_passed_or(r) == Len(r) = 0 \/ mean_accuracy(r) >= AcceptAccuracy

\* mutant: strict comparison
validation_passed_strict(r) ==
    Len(r) > 0 /\ SumSeq([i \in 1..Len(r) |-> r[i].accuracy]) > AcceptAccuracy * Len(r)

\* main: len(wf_results) > 0 and wf_results['accuracy'].mean() >= 0.55
validation_passed(r) == Len(r) > 0 /\ mean_accuracy(r) >= AcceptAccuracy

\* TimeSeriesSplit(n_splits).split(X), j = 1..n_splits: rows before
\* test_start train, the next test_size rows validate
tss_test_size(n, k) == n \div (k + 1)
tss_test_start(n, k, j) == n - (k - j + 1) * tss_test_size(n, k)
tss_train(n, k, j) == 1..tss_test_start(n, k, j)
tss_val(n, k, j) ==
    (tss_test_start(n, k, j) + 1)..(tss_test_start(n, k, j) + tss_test_size(n, k))

\* ------------------------------------------------------------------
\* Inputs: the valid samples prepare_data returns, by their timestamps.
\* One row every SparseStep hours, and one row every step hours inside the
\* 30-day blocks listed in dense.
\* ------------------------------------------------------------------
SparseStep == 7 * HoursPerDay
BlockHours == DaysPerMonth * HoursPerDay
\* timestamp of the first candle
Epoch == 17 * HoursPerDay
NoDate == 0 - 1

InDense(t, tm, testm, dense, step) ==
    /\ t % step = 0
    /\ \E k \in dense :
          /\ BlockHours * tm * k <= t
          /\ t <= BlockHours * tm * k + BlockHours * testm

GenTimestamps(ns, tm, testm, dense, step) ==
    LET horizon == BlockHours * tm * ns + BlockHours * testm
        Keep(t) == t % SparseStep = 0 \/ InDense(t, tm, testm, dense, step)
        kept == SelectSeq([i \in 1..(horizon + 1) |-> i - 1], Keep)
    IN  [i \in 1..Len(kept) |-> Epoch + kept[i]]

Configs ==
    {<<DefaultSplits, DefaultTrainMonths, DefaultTestMonths>>}
    \cup ((1..MaxSplits) \X (1..MaxMonths) \X (1..MaxMonths))

\* the folds whose test block is dense: all, all but one, or none
DensePatterns(ns) ==
    {1..ns, {}} \cup {(1..ns) \ {k} : k \in 1..ns}

WFInit ==
    /\ \E c \in Configs, step \in {6, 7} :
          /\ n_splits = c[1]
          /\ train_months = c[2]
          /\ test_months = c[3]
          /\ \E dense \in DensePatterns(c[1]) :
                df = GenTimestamps(c[1], c[2], c[3], dense, step)
    /\ has_timestamp \in BOOLEAN
    /\ timestamp_dtype \in (IF has_timestamp THEN TimestampDtypes ELSE {NoColumn})
    /\ pc = "INIT"
    /\ start_date = NoDate
    /\ fold = 0
    /\ train_data = {}
    /\ test_data = {}
    /\ scaler = NoScaler
    /\ model = NoModel
    /\ X_test_scaled = NoScaled
    /\ y_pred = 0
    /\ results = <<>>
    /\ wf_results = <<>>
    /\ windows = <<>>
    /\ fit_log = <<>>
    /\ trainer = [scaler |-> NoScaler, model |-> NoModel, X_val_scaled |-> NoScaled]
    /\ twf_fold = 0
    /\ saved = [done |-> FALSE, model |-> NoModel, scaler |-> NoScaler,
               scaler_data |-> NoScalerData]

\* the other components, while a specification does not exercise them
WFIdle ==
    /\ df = <<>> /\ has_timestamp = FALSE /\ timestamp_dtype = NoColumn
    /\ n_splits = 0 /\ train_months = 0 /\ test_months = 0
    /\ pc = "IDLE" /\ start_date = NoDate /\ fold = 0
    /\ train_data = {} /\ test_data = {}
    /\ scaler = NoScaler /\ model = NoModel /\ X_test_scaled = NoScaled
    /\ y_pred = 0 /\ results = <<>> /\ wf_results = <<>>
    /\ windows = <<>> /\ fit_log = <<>>
    /\ trainer = [scaler |-> NoScaler, model |-> NoModel, X_val_scaled |-> NoScaled]
    /\ twf_fold = 0
    /\ saved = [done |-> FALSE, model |-> NoModel, scaler |-> NoScaler,
               scaler_data |-> NoScalerData]

LGIdle == lg_df = <<>> /\ lg_pkd = <<>> /\ lg_atr = <<>> /\ label_data = <<>>

FEIdle ==
    /\ candles = <<>> /\ candles2 = <<>> /\ agree_upto = 0
    /\ df_features = <<>> /\ df_features2 = <<>>
    /\ fe_error = "none"

PDIdle ==
    /\ raw_df = <<>> /\ pd_pc = "IDLE"
    /\ pd_X = <<>> /\ pd_y = <<>> /\ pd_df_features = <<>> /\ pd_bars = <<>>
    /\ wf_columns = <<>> /\ FEATURES = <<>>
    /\ pd_fold = 0 /\ pd_scored = 0 /\ model_inputs = <<>>

EVIdle ==
    /\ ev_pc = "IDLE" /\ ev_folds = <<>> /\ ev_fold = 0
    /\ ev_rng = <<>> /\ ev_rng0 = <<>> /\ ev_results = <<>>
    /\ ev_y = <<>> /\ ev_proba = <<>> /\ ev_metrics = <<>> /\ ev_trading = <<>>

EXIdle ==
    /\ ex_pc = "IDLE" /\ ex_models_dir = {} /\ ex_call = <<>>
    /\ exporter = <<>> /\ ex_error = "none"

CDIdle ==
    /\ cd_pc = "IDLE" /\ cd_env = <<>> /\ cd_df = <<>>
    /\ cd_method_used = "None" /\ cd_attempts = <<>> /\ cd_saved = <<>>

Init == WFInit /\ LGIdle /\ FEIdle /\ PDIdle /\ EVIdle /\ EXIdle /\ CDIdle

\* ------------------------------------------------------------------
\* walk_forward_validation
\* ------------------------------------------------------------------
AtLoopHead == pc \in {"INIT", "FOLD_SCORE"} /\ start_date # NoDate

\* lines 404-407: no 'timestamp' column, an empty DataFrame is returned
NoTimestampColumn ==
    /\ pc = "INIT" /\ start_date = NoDate
    /\ ~has_timestamp
    /\ wf_results' = <<>>
    /\ pc' = "GATE_DECISION"
    /\ UNCHANGED <<lgvars, fevars, pdvars, evvars, exvars, cdvars, df, has_timestamp, timestamp_dtype, n_splits, train_months, test_months,
                   start_date, fold, train_data, test_data, scaler, model,
                   X_test_scaled, y_pred, results, windows, fit_log, trainer,
                   twf_fold, saved>>

\* lines 409-416: df['timestamp'] = pd.to_datetime(df['timestamp']) is
\* assigned into the table the caller passed; the indexed, sorted table is a
\* new one; start_date = df.index.min()
WalkForwardStart ==
    /\ pc = "INIT" /\ start_date = NoDate
    /\ has_timestamp
    /\ timestamp_dtype' = to_datetime(timestamp_dtype)
    /\ start_date' = SetMin({df[i] : i \in 1..Len(df)})
    /\ UNCHANGED <<lgvars, fevars, pdvars, evvars, exvars, cdvars, df, has_timestamp, n_splits, train_months, test_months, pc,
                   fold, train_data, test_data, scaler, model, X_test_scaled,
                   y_pred, results, wf_results, windows, fit_log, trainer,
                   twf_fold, saved>>

Window(f, tr, te, skip) ==
    [fold |-> f + 1,
     train_end_date |-> train_end_date(start_date, train_months, f),
     test_start_date |-> test_start_date(start_date, train_months, f),
     test_end_date |-> test_end_date(start_date, train_months, test_months, f),
     train |-> tr, test |-> te, skipped |-> skip]

\* lines 418-432: the fold's split has fewer than 100 test rows
FoldSkip ==
    /\ AtLoopHead /\ fold < n_splits
    /\ LET tr == TrainRows(df, start_date, train_months, fold)
           te == TestRows(df, start_date, train_months, test_months, fold)
       IN  /\ Cardinality(te) < MinTestSamples
           /\ train_data' = tr
           /\ test_data' = te
           /\ windows' = Append(windows, Window(fold, tr, te, TRUE))
    /\ fold' = skip_continue(fold, n_splits)
    /\ UNCHANGED <<lgvars, fevars, pdvars, evvars, exvars, cdvars, df, has_timestamp, timestamp_dtype, n_splits, train_months, test_months, pc,
                   start_date, scaler, model, X_test_scaled, y_pred, results,
                   wf_results, fit_log, trainer, twf_fold, saved>>

\* lines 418-462: split, scale (statistics of X_train), fit the model
FoldTrain ==
    /\ AtLoopHead /\ fold < n_splits
    /\ LET tr == TrainRows(df, start_date, train_months, fold)
           te == TestRows(df, start_date, train_months, test_months, fold)
       IN  /\ Cardinality(te) >= MinTestSamples
           /\ train_data' = tr
           /\ test_data' = te
           /\ windows' = Append(windows, Window(fold, tr, te, FALSE))
           /\ scaler' = scaler_fit(tr)
           /\ X_test_scaled' = scaler_transform(scaler_fit(tr), te)
           /\ model' = model_fit(tr)
    /\ fit_log' = Append(fit_log, fold + 1)
    /\ pc' = "FOLD_TRAIN"
    /\ UNCHANGED <<lgvars, fevars, pdvars, evvars, exvars, cdvars, df, has_timestamp, timestamp_dtype, n_splits, train_months, test_months,
                   start_date, fold, y_pred, results, wf_results, trainer,
                   twf_fold, saved>>

\* lines 464-466: predict_proba on the scaled test rows, thresholded
FoldTest ==
    /\ pc = "FOLD_TRAIN"
    /\ y_pred' \in AccuracyChoices
    /\ pc' = "FOLD_TEST"
    /\ UNCHANGED <<lgvars, fevars, pdvars, evvars, exvars, cdvars, df, has_timestamp, timestamp_dtype, n_splits, train_months, test_months,
                   start_date, fold, train_data, test_data, scaler, model,
                   X_test_scaled, results, wf_results, windows, fit_log,
                   trainer, twf_fold, saved>>

\* lines 468-490: the fold's metrics are appended to results
FoldScore ==
    /\ pc = "FOLD_TEST"
    /\ results' = Append(results,
                     [fold |-> fold + 1,
                      train_size |-> Cardinality(train_data),
                      test_size |-> Cardinality(test_data),
                      accuracy |-> y_pred])
    /\ fold' = fold + 1
    /\ pc' = "FOLD_SCORE"
    /\ UNCHANGED <<lgvars, fevars, pdvars, evvars, exvars, cdvars, df, has_timestamp, timestamp_dtype, n_splits, train_months, test_months,
                   start_date, train_data, test_data, scaler, model,
                   X_test_scaled, y_pred, wf_results, windows, fit_log,
                   trainer, twf_fold, saved>>

\* lines 496-516: the loop is over; empty results give an empty DataFrame
Aggregate ==
    /\ AtLoopHead /\ fold >= n_splits
    /\ wf_results' = IF results = <<>> THEN <<>> ELSE results
    /\ pc' = "AGGREGATE"
    /\ UNCHANGED <<lgvars, fevars, pdvars, evvars, exvars, cdvars, df, has_timestamp, timestamp_dtype, n_splits, train_months, test_months,
                   start_date, fold, train_data, test_data, scaler, model,
                   X_test_scaled, y_pred, results, windows, fit_log, trainer,
                   twf_fold, saved>>

\* ------------------------------------------------------------------
\* main: the gate, and the final model
\* ------------------------------------------------------------------
\* mutant: main goes on to the final training without the gate
ReturnToMain_nogate ==
    /\ pc = "AGGREGATE"
    /\ pc' = "ACCEPT"
    /\ UNCHANGED <<lgvars, fevars, pdvars, evvars, exvars, cdvars, df, has_timestamp, timestamp_dtype, n_splits, train_months, test_months,
                   start_date, fold, train_data, test_data, scaler, model,
                   X_test_scaled, y_pred, results, wf_results, windows,
                   fit_log, trainer, twf_fold, saved>>

\* line 599: walk_forward_validation returns to main
ReturnToMain ==
    /\ pc = "AGGREGATE"
    /\ pc' = "GATE_DECISION"
    /\ UNCHANGED <<lgvars, fevars, pdvars, evvars, exvars, cdvars, df, has_timestamp, timestamp_dtype, n_splits, train_months, test_months,
                   start_date, fold, train_data, test_data, scaler, model,
                   X_test_scaled, y_pred, results, wf_results, windows,
                   fit_log, trainer, twf_fold, saved>>

\* lines 603-604
GateAccept ==
    /\ pc = "GATE_DECISION"
    /\ validation_passed(wf_results)
    /\ pc' = "ACCEPT"
    /\ UNCHANGED <<lgvars, fevars, pdvars, evvars, exvars, cdvars, df, has_timestamp, timestamp_dtype, n_splits, train_months, test_months,
                   start_date, fold, train_data, test_data, scaler, model,
                   X_test_scaled, y_pred, results, wf_results, windows,
                   fit_log, trainer, twf_fold, saved>>

\* lines 619-623
GateReject ==
    /\ pc = "GATE_DECISION"
    /\ ~validation_passed(wf_results)
    /\ pc' = "REJECT"
    /\ UNCHANGED <<lgvars, fevars, pdvars, evvars, exvars, cdvars, df, has_timestamp, timestamp_dtype, n_splits, train_months, test_months,
                   start_date, fold, train_data, test_data, scaler, model,
                   X_test_scaled, y_pred, results, wf_results, windows,
                   fit_log, trainer, twf_fold, saved>>

\* train_with_walk_forward, lines 256-298: one TimeSeriesSplit fold; the
\* trainer's scaler is re-fit on the fold's training rows
TrainFold ==
    /\ pc = "ACCEPT" /\ twf_fold < FinalSplits
    /\ LET n == Len(df)
           sc == scaler_fit(tss_train(n, FinalSplits, twf_fold + 1))
       IN  trainer' = [trainer EXCEPT
                         !.scaler = sc,
                         !.X_val_scaled =
                            scaler_transform(sc, tss_val(n, FinalSplits, twf_fold + 1))]
    /\ twf_fold' = twf_fold + 1
    /\ UNCHANGED <<lgvars, fevars, pdvars, evvars, exvars, cdvars, df, has_timestamp, timestamp_dtype, n_splits, train_months, test_months, pc,
                   start_date, fold, train_data, test_data, scaler, model,
                   X_test_scaled, y_pred, results, wf_results, windows,
                   fit_log, saved>>

\* mutant: the final model is fit with the scaler of the last fold
TrainFinal_fold_scaler ==
    /\ pc = "ACCEPT" /\ twf_fold = FinalSplits /\ ~trainer.model.fitted
    /\ trainer' = [trainer EXCEPT !.model = model_fit(1..Len(df))]
    /\ UNCHANGED <<lgvars, fevars, pdvars, evvars, exvars, cdvars, df, has_timestamp, timestamp_dtype, n_splits, train_months, test_months, pc,
                   start_date, fold, train_data, test_data, scaler, model,
                   X_test_scaled, y_pred, results, wf_results, windows,
                   fit_log, twf_fold, saved>>

\* train_with_walk_forward, lines 312-321: scaler and model on all rows
TrainFinal ==
    /\ pc = "ACCEPT" /\ twf_fold = FinalSplits /\ ~trainer.model.fitted
    /\ trainer' = [trainer EXCEPT
                     !.scaler = scaler_fit(1..Len(df)),
                     !.model = model_fit(1..Len(df))]
    /\ UNCHANGED <<lgvars, fevars, pdvars, evvars, exvars, cdvars, df, has_timestamp, timestamp_dtype, n_splits, train_months, test_months, pc,
                   start_date, fold, train_data, test_data, scaler, model,
                   X_test_scaled, y_pred, results, wf_results, windows,
                   fit_log, twf_fold, saved>>

\* save_model, lines 342-379
SaveModel ==
    /\ pc = "ACCEPT" /\ trainer.model.fitted /\ ~saved.done
    /\ saved' = [done |-> TRUE, model |-> trainer.model, scaler |-> trainer.scaler,
                 scaler_data |-> scaler_data(trainer.scaler)]
    /\ UNCHANGED <<lgvars, fevars, pdvars, evvars, exvars, cdvars, df, has_timestamp, timestamp_dtype, n_splits, train_months, test_months, pc,
                   start_date, fold, train_data, test_data, scaler, model,
                   X_test_scaled, y_pred, results, wf_results, windows,
                   fit_log, trainer, twf_fold>>

Next ==
    \/ NoTimestampColumn
    \/ WalkForwardStart
    \/ FoldSkip
    \/ FoldTrain
    \/ FoldTest
    \/ FoldScore
    \/ Aggregate
    \/ ReturnToMain
    \/ GateAccept
    \/ GateReject
    \/ TrainFold
    \/ TrainFinal
    \/ SaveModel

Spec == Init /\ [][Next]_vars

\* the program is sequential and every step returns: it runs while it can
FairSpec == Spec /\ WF_vars(Next)

\* ==================================================================
\* label_generator.py
\* ==================================================================
\* the missing marker of pandas (NaN), kept apart from every number
NaN == -2000000000
\* fixed point: FP_SCALE to the unit
FP_SCALE == 1000
\* LabelGenerator.__init__ defaults; prices are whole pips (pip_value = 0.01)
continuation_pips == 30
lookforward_candles == 10
\* |price_kumo_distance| of the neutral zone: 0.1
NeutralBand == FP_SCALE \div 10
\* sl_multiplier = 1.5 = 3/2
SlMultiplierNum == 3
SlMultiplierDen == 2

\* a / b for b > 0, rounded toward zero
TruncDiv(a, b) == IF a >= 0 THEN a \div b ELSE 0 - ((0 - a) \div b)

\* df.iloc[i+1 : i+1+lookforward_candles], for the 0-based bar i-1
future_window(d, i) == {j \in 1..Len(d) : i + 1 <= j /\ j <= i + lookforward_candles}
window_max_high(d, i) == SetMax({d[j].high : j \in future_window(d, i)})
window_min_low(d, i) == SetMin({d[j].low : j \in future_window(d, i)})

\* for i in range(len(df) - lookforward_candles): the bars that get a value
has_forward_window(d, i) == i <= Len(d) - lookforward_candles

\* mutant: the close of the bar is not subtracted from the extreme
calculate_future_move_absolute(d, direction) ==
    [i \in 1..Len(d) |->
        IF ~has_forward_window(d, i) THEN NaN
        ELSE IF direction = "bearish" THEN window_min_low(d, i)
        ELSE window_max_high(d, i)]

\* calculate_future_move: 'both' is treated as 'bullish'; in pips
calculate_future_move(d, direction) ==
    [i \in 1..Len(d) |->
        IF ~has_forward_window(d, i) THEN NaN
        ELSE IF direction = "bearish" THEN d[i].close - window_min_low(d, i)
        ELSE window_max_high(d, i) - d[i].close]

\* mutant: a strict comparison with continuation_pips
reaches_continuation_strict(move) ==
    IF move # NaN /\ move > continuation_pips THEN 1 ELSE 0

\* (future_move >= continuation_pips).astype(int): a NaN compares False
reaches_continuation(move) == IF move # NaN /\ move >= continuation_pips THEN 1 ELSE 0

generate_bullish_labels(d) ==
    LET future_move == calculate_future_move(d, "bullish")
    IN  [i \in 1..Len(d) |-> reaches_continuation(future_move[i])]

generate_bearish_labels(d) ==
    LET future_move == calculate_future_move(d, "bearish")
    IN  [i \in 1..Len(d) |-> reaches_continuation(future_move[i])]

bullish_mask(x) == x # NaN /\ x > NeutralBand
bearish_mask(x) == x # NaN /\ x < 0 - NeutralBand

\* mutant: the bounds of the neutral zone are left out
neutral_mask_open(x) == x # NaN /\ x > 0 - NeutralBand /\ x < NeutralBand

neutral_mask(x) == x # NaN /\ x >= 0 - NeutralBand /\ x <= NeutralBand

\* generate_directional_labels: a float Series of NaN, then the three
\* masked assignments in the order of the code
generate_directional_labels(d, pkd) ==
    LET bullish_labels == generate_bullish_labels(d)
        bearish_labels == generate_bearish_labels(d)
    IN  [i \in 1..Len(d) |->
            LET l0 == NaN
                l1 == IF bullish_mask(pkd[i]) THEN bullish_labels[i] ELSE l0
                l2 == IF bearish_mask(pkd[i]) THEN bearish_labels[i] ELSE l1
            IN  IF neutral_mask(pkd[i]) THEN 0 - 1 ELSE l2]

\* calculate_risk_reward_ratio: max_favorable / (atr * sl_multiplier), or 0
\* when stop_loss > 0 is False (zero, negative or NaN stop loss)
calculate_risk_reward_ratio(d, atr) ==
    [i \in 1..Len(d) |->
        IF ~has_forward_window(d, i) THEN NaN
        ELSE LET max_favorable == (window_max_high(d, i) - d[i].close) * FP_SCALE
                 stop_loss == IF atr[i] = NaN THEN NaN
                              ELSE (atr[i] * SlMultiplierNum) \div SlMultiplierDen
             IN  IF stop_loss # NaN /\ stop_loss > 0
                 THEN TruncDiv(max_favorable * SlMultiplierDen * FP_SCALE,
                               atr[i] * SlMultiplierNum)
                 ELSE 0]

\* labels >= 0
is_valid_label(l) == l # NaN /\ l >= 0

generate_labels_with_metadata(d, pkd, atr) ==
    LET labels == generate_directional_labels(d, pkd)
        bullish_move == calculate_future_move(d, "bullish")
        bearish_move == calculate_future_move(d, "bearish")
        rr_ratio == calculate_risk_reward_ratio(d, atr)
    IN  [i \in 1..Len(d) |->
            [label |-> labels[i],
             bullish_move_pips |-> bullish_move[i],
             bearish_move_pips |-> bearish_move[i],
             risk_reward_ratio |-> rr_ratio[i],
             is_valid |-> is_valid_label(labels[i])]]

\* ------------------------------------------------------------------
\* Inputs of the label generator
\* ------------------------------------------------------------------
\* longest history: lookforward_candles + MaxExtraBars bars
MaxExtraBars == 3
\* generate_realistic_usdjpy: base_price = 152.0, in pips
base_price == 15200

\* close alternates by one pip; bar e carries a spike of the high or a dip of
\* the low on top of a 2-pip wick
LGCandle(i, e, up, down) ==
    [close |-> base_price + (i % 2),
     high |-> base_price + (i % 2) + 2 + (IF i = e THEN up ELSE 0),
     low |-> base_price + (i % 2) - 2 - (IF i = e THEN down ELSE 0)]

Excursions == {<<0, 0>>, <<27, 0>>, <<28, 0>>, <<0, 27>>, <<0, 28>>}
PkdChoices == <<NaN, 0 - 150, 0 - NeutralBand, 0, NeutralBand, 150>>
AtrChoices == <<NaN, 0, 12 * FP_SCALE>>

\* a bar of a flat series: open = high = low = close
FlatCandle == [close |-> base_price, high |-> base_price, low |-> base_price]

LGInit ==
    /\ \E n \in lookforward_candles..(lookforward_candles + MaxExtraBars) :
       \E e \in 1..n, x \in Excursions, shift \in 0..5 :
          /\ \/ lg_df = [i \in 1..n |-> LGCandle(i, e, x[1], x[2])]
             \/ lg_df = [i \in 1..n |-> FlatCandle]
          /\ lg_pkd = [i \in 1..n |-> PkdChoices[((i + shift) % 6) + 1]]
          /\ lg_atr = [i \in 1..n |-> AtrChoices[((i + shift) % 3) + 1]]
    /\ label_data = <<>>

InitLG == LGInit /\ WFIdle /\ FEIdle /\ PDIdle /\ EVIdle /\ EXIdle /\ CDIdle

\* LabelGenerator.generate_labels_with_metadata(df, price_kumo_distance, atr)
GenerateLabels ==
    /\ lg_df # <<>> /\ label_data = <<>>
    /\ label_data' = generate_labels_with_metadata(lg_df, lg_pkd, lg_atr)
    /\ UNCHANGED <<wfvars, fevars, pdvars, evvars, exvars, cdvars, lg_df, lg_pkd, lg_atr>>

NextLG == GenerateLabels

SpecLG == InitLG /\ [][NextLG]_vars

\* ------------------------------------------------------------------
\* Claims about the label generator
\* ------------------------------------------------------------------
Labelled == label_data # <<>>
FinalBars == {i \in 1..Len(lg_df) : i > Len(lg_df) - lookforward_candles}

\* C2 (as claimed): each of the final lookforward_candles bars of the history
\* gets label -1 and is_valid false.
C2_FinalBarsInvalid ==
    Labelled =>
        \A i \in FinalBars :
            label_data[i].label = 0 - 1 /\ ~label_data[i].is_valid

\* C3: every bar whose price_kumo_distance lies in [-0.1, 0.1] gets label -1
\* (and is not valid), whatever the candles after it.
C3_NeutralInvalid ==
    Labelled =>
        \A i \in 1..Len(lg_df) :
            (lg_pkd[i] # NaN /\ lg_pkd[i] >= 0 - NeutralBand /\ lg_pkd[i] <= NeutralBand)
                => (label_data[i].label = 0 - 1 /\ ~label_data[i].is_valid)

\* a neutral bar on the edge of the zone whose forward window holds a
\* 30-pip move
C3_Witness ==
    /\ Labelled
    /\ \E i \in 1..Len(lg_df) :
          /\ lg_pkd[i] = NeutralBand
          /\ label_data[i].bullish_move_pips # NaN
          /\ label_data[i].bullish_move_pips >= continuation_pips
          /\ label_data[i].label = 0 - 1

\* C15: at a bar with a full forward window, a bullish bias
\* (price_kumo_distance > 0.1) gives label 1 exactly when some high of the
\* next lookforward_candles bars is continuation_pips above the close, a
\* bearish bias (< -0.1) gives label 1 exactly when some low of those bars is
\* continuation_pips below the close, and the label is 0 otherwise.
ForwardBars(i) == {j \in 1..Len(lg_df) : j > i /\ j <= i + lookforward_candles}
BullishContinuation(i) ==
    \E j \in ForwardBars(i) : lg_df[j].high - lg_df[i].close >= continuation_pips
BearishContinuation(i) ==
    \E j \in ForwardBars(i) : lg_df[i].close - lg_df[j].low >= continuation_pips
Bullish(i) == lg_pkd[i] # NaN /\ lg_pkd[i] > NeutralBand
Bearish(i) == lg_pkd[i] # NaN /\ lg_pkd[i] < 0 - NeutralBand

C15_DirectionalLabel ==
    Labelled =>
        \A i \in 1..Len(lg_df) : i + lookforward_candles <= Len(lg_df) =>
            /\ Bullish(i) =>
                  label_data[i].label = (IF BullishContinuation(i) THEN 1 ELSE 0)
            /\ Bearish(i) =>
                  label_data[i].label = (IF BearishContinuation(i) THEN 1 ELSE 0)

\* a bearish bar that continued by exactly continuation_pips, labelled 1
C15_Witness ==
    /\ Labelled
    /\ \E i \in 1..Len(lg_df) :
          /\ i + lookforward_candles <= Len(lg_df)
          /\ Bearish(i)
          /\ label_data[i].bearish_move_pips = continuation_pips
          /\ label_data[i].label = 1

IsFlat(d) ==
    \A i \in 1..Len(d) :
        d[i].high = d[1].close /\ d[i].low = d[1].close /\ d[i].close = d[1].close

\* C17 (as claimed): on a flat price series bullish_move_pips and
\* bearish_move_pips are 0 at every bar, and the label is 0 at every bar
\* whose bias is not neutral.
C17_FlatEveryBar ==
    (Labelled /\ IsFlat(lg_df)) =>
        \A i \in 1..Len(lg_df) :
            /\ label_data[i].bullish_move_pips = 0
            /\ label_data[i].bearish_move_pips = 0
            /\ (Bullish(i) \/ Bearish(i)) => label_data[i].label = 0

\* C17 (amended): on a flat price series bullish_move_pips and
\* bearish_move_pips are 0 at every bar that has a full forward window, and
\* the label is 0 at every such bar whose bias is not neutral.
C17_FlatFullWindow ==
    (Labelled /\ IsFlat(lg_df)) =>
        \A i \in 1..Len(lg_df) : i + lookforward_candles <= Len(lg_df) =>
            /\ label_data[i].bullish_move_pips = 0
            /\ label_data[i].bearish_move_pips = 0
            /\ (Bullish(i) \/ Bearish(i)) => label_data[i].label = 0

\* a labelled flat series with a bullish and a bearish bar ahead of a full
\* forward window
C17_Witness ==
    /\ Labelled /\ IsFlat(lg_df)
    /\ \E i, j \in 1..Len(lg_df) :
          /\ i + lookforward_candles <= Len(lg_df) /\ Bullish(i)
          /\ j + lookforward_candles <= Len(lg_df) /\ Bearish(j)
          /\ label_data[i].label = 0 /\ label_data[j].label = 0

\* ==================================================================
\* feature_engineering.py
\* ==================================================================
\* FeatureEngineer.__init__
tenkan_period == 9
kijun_period == 26
senkou_span_b_period == 52
atr_period == 14
adx_period == 14
\* the rolling windows of avg_volume and avg_range
AvgWindow == 20
\* calculate_slope(..., lookback=3) and its scale
SlopeLookback == 3
SlopeScale == 100000
\* the scales of chikou_relative_position, atr_normalized, +DI/-DI/DX
ChikouScale == 1000
AtrNormScale == 10000
Percent == 100
\* detect_market_regime: ADX > 25 is a trend, ADX < 20 with
\* atr_normalized > 1.5 is choppy
TrendAdx == 25
ChoppyAdx == 20
ChoppyAtrNum == 3
ChoppyAtrDen == 2

\* Prices and tick volumes are counted in units of 0.00001, the epsilon the
\* code adds to its divisors; ratios are fixed point with FP_SCALE to the
\* unit, every division rounded toward zero.
PriceScale == 100 * FP_SCALE
Epsilon == 1

Abs(x) == IF x < 0 THEN 0 - x ELSE x

\* <<q, r>> with a * b = q * c + r, for a, b >= 0 and c > 0, one decimal
\* digit of b at a time so that no intermediate leaves 32 bits
MulDivStep(h, a, digit, c) ==
    LET t == 10 * h[2] + a * digit
    IN  <<10 * h[1] + (t \div c), t % c>>

RECURSIVE MulDivQR(_, _, _)
MulDivQR(a, b, c) ==
    IF b = 0 THEN <<0, 0>>
    ELSE MulDivStep(MulDivQR(a, b \div 10, c), a, b % 10, c)

\* a * b / c on floats: NaN when an operand is NaN; a zero divisor gives
\* inf or NaN, neither of which is a number of the feature
fp_muldiv(a, b, c) ==
    IF a = NaN \/ b = NaN \/ c = NaN \/ c = 0 THEN NaN
    ELSE LET q == MulDivQR(Abs(a), Abs(b), Abs(c))[1]
             negative == ((a < 0) # (b < 0)) # (c < 0)
         IN  IF negative THEN 0 - q ELSE q

nan_add(a, b) == IF a = NaN \/ b = NaN THEN NaN ELSE a + b
nan_sub(a, b) == IF a = NaN \/ b = NaN THEN NaN ELSE a - b
nan_abs(a) == IF a = NaN THEN NaN ELSE Abs(a)
nan_halve(a) == IF a = NaN THEN NaN ELSE TruncDiv(a, 2)
nan_gt(a, b) == a # NaN /\ b # NaN /\ a > b
nan_lt(a, b) == a # NaN /\ b # NaN /\ a < b

\* a column of the frame, held as a sequence
Column(f, n) == SubSeq(f, 1, n)

\* Series.shift(k): row i takes the value of row i - k
shift(s, k) ==
    Column([i \in 1..Len(s) |->
        IF i - k >= 1 /\ i - k <= Len(s) THEN s[i - k] ELSE NaN], Len(s))

\* Series.rolling(window=w): defined once w rows, none of them NaN, are there
rolling_window(i, w) == (i - w + 1)..i
rolling_defined(s, w, i) == i >= w /\ \A j \in rolling_window(i, w) : s[j] # NaN

rolling_max(s, w) ==
    Column([i \in 1..Len(s) |->
        IF rolling_defined(s, w, i)
        THEN SetMax({s[j] : j \in rolling_window(i, w)}) ELSE NaN], Len(s))

rolling_min(s, w) ==
    Column([i \in 1..Len(s) |->
        IF rolling_defined(s, w, i)
        THEN SetMin({s[j] : j \in rolling_window(i, w)}) ELSE NaN], Len(s))

rolling_mean(s, w) ==
    Column([i \in 1..Len(s) |->
        IF rolling_defined(s, w, i)
        THEN TruncDiv(SumSeq(SubSeq(s, i - w + 1, i)), w) ELSE NaN], Len(s))

\* Series.diff()
diff(s) == LET prev == shift(s, 1)
           IN  Column([i \in 1..Len(s) |-> nan_sub(s[i], prev[i])], Len(s))

col_high(d) == Column([i \in 1..Len(d) |-> d[i].high], Len(d))
col_low(d) == Column([i \in 1..Len(d) |-> d[i].low], Len(d))
col_close(d) == Column([i \in 1..Len(d) |-> d[i].close], Len(d))
col_tick_volume(d) == Column([i \in 1..Len(d) |-> d[i].tick_volume * PriceScale], Len(d))

\* (period_high + period_low) / 2 over a rolling window
midpoint(d, period) ==
    LET period_high == rolling_max(col_high(d), period)
        period_low == rolling_min(col_low(d), period)
    IN  Column([i \in 1..Len(d) |->
            nan_halve(nan_add(period_high[i], period_low[i]))], Len(d))

calculate_ichimoku(d) ==
    LET tenkan_sen == midpoint(d, tenkan_period)
        kijun_sen == midpoint(d, kijun_period)
        span_a == Column([i \in 1..Len(d) |->
                      nan_halve(nan_add(tenkan_sen[i], kijun_sen[i]))], Len(d))
    IN  [tenkan_sen |-> tenkan_sen,
         kijun_sen |-> kijun_sen,
         senkou_span_a |-> shift(span_a, kijun_period),
         senkou_span_b |-> shift(midpoint(d, senkou_span_b_period), kijun_period),
         chikou_span |-> shift(col_close(d), 0 - kijun_period)]

\* DataFrame.max(axis=1) / min(axis=1): the NaN entries are skipped
row_max(xs) == IF xs \ {NaN} = {} THEN NaN ELSE SetMax(xs \ {NaN})
row_min(xs) == IF xs \ {NaN} = {} THEN NaN ELSE SetMin(xs \ {NaN})

calculate_atr(d, period) ==
    LET prev_close == shift(col_close(d), 1)
        true_range == Column([i \in 1..Len(d) |->
            row_max({d[i].high - d[i].low,
                     nan_abs(nan_sub(d[i].high, prev_close[i])),
                     nan_abs(nan_sub(d[i].low, prev_close[i]))})], Len(d))
    IN  rolling_mean(true_range, period)

\* +DI and -DI of calculate_adx: 100 * (rolling mean of the directional
\* movement / ATR); a zero ATR gives inf or NaN
directional_indicators(d, period) ==
    LET high_diff == diff(col_high(d))
        low_diff == LET dl == diff(col_low(d))
                    IN  Column([i \in 1..Len(d) |-> nan_sub(0, dl[i])], Len(d))
        plus_dm == Column([i \in 1..Len(d) |->
            IF nan_gt(high_diff[i], low_diff[i]) /\ nan_gt(high_diff[i], 0)
            THEN high_diff[i] ELSE 0], Len(d))
        minus_dm == Column([i \in 1..Len(d) |->
            IF nan_gt(low_diff[i], high_diff[i]) /\ nan_gt(low_diff[i], 0)
            THEN low_diff[i] ELSE 0], Len(d))
        atr == calculate_atr(d, period)
        plus_mean == rolling_mean(plus_dm, period)
        minus_mean == rolling_mean(minus_dm, period)
    IN  [plus_di |-> Column([i \in 1..Len(d) |->
            fp_muldiv(plus_mean[i], Percent * FP_SCALE, atr[i])], Len(d)),
         minus_di |-> Column([i \in 1..Len(d) |->
            fp_muldiv(minus_mean[i], Percent * FP_SCALE, atr[i])], Len(d))]

\* 100 * |+DI - -DI| / (+DI + -DI), unguarded: 0/0 is NaN, and an infinite
\* or NaN DI makes it NaN
directional_index(plus_di, minus_di) ==
    fp_muldiv(nan_abs(nan_sub(plus_di, minus_di)), Percent * FP_SCALE,
              nan_add(plus_di, minus_di))

calculate_adx(d, period) ==
    LET di == directional_indicators(d, period)
        dx == Column([i \in 1..Len(d) |->
                  directional_index(di.plus_di[i], di.minus_di[i])], Len(d))
    IN  rolling_mean(dx, period)

\* ((series - series.shift(lookback - 1)) / lookback / series) * 100000
calculate_slope(series, lookback) ==
    LET earlier == shift(series, lookback - 1)
    IN  Column([i \in 1..Len(series) |->
            fp_muldiv(nan_sub(series[i], earlier[i]), SlopeScale * FP_SCALE,
                      IF series[i] = NaN THEN NaN ELSE lookback * series[i])],
            Len(series))

calc_price_kumo_distance(close, kumo_top, kumo_bottom, atr) ==
    IF nan_gt(close, kumo_top)
    THEN fp_muldiv(nan_sub(close, kumo_top), FP_SCALE, nan_add(atr, Epsilon))
    ELSE IF nan_lt(close, kumo_bottom)
    THEN fp_muldiv(nan_sub(close, kumo_bottom), FP_SCALE, nan_add(atr, Epsilon))
    ELSE 0

\* df.index.hour; timestamps are whole hours counted from a midnight
index_hour(ts) == ts % HoursPerDay

get_session_id(hour) ==
    IF 0 <= hour /\ hour < 8 THEN 0
    ELSE IF 8 <= hour /\ hour < 16 THEN 1
    ELSE IF 16 <= hour /\ hour < 24 THEN 2
    ELSE 3

\* mutant: the choppy test leaves out "adx < 20", so that it overwrites a
\* trend
regime_flag_of_choppy_any_adx(adx, atr_normalized) ==
    LET trend == IF nan_gt(adx, TrendAdx * FP_SCALE) THEN 1 ELSE 0
    IN  IF /\ atr_normalized # NaN
           /\ atr_normalized * ChoppyAtrDen > ChoppyAtrNum * FP_SCALE
        THEN 2 ELSE trend

\* mutant: the trend test written as "not (ADX <= 25)", true of a NaN
regime_flag_of_negated(adx, atr_normalized) ==
    LET trend == IF ~nan_gt(TrendAdx * FP_SCALE + 1, adx) THEN 1 ELSE 0
    IN  IF /\ atr_normalized # NaN
           /\ atr_normalized * ChoppyAtrDen > ChoppyAtrNum * FP_SCALE
           /\ nan_lt(adx, ChoppyAdx * FP_SCALE)
        THEN 2 ELSE trend

\* detect_market_regime, for one row
regime_flag_of(adx, atr_normalized) ==
    LET trend == IF nan_gt(adx, TrendAdx * FP_SCALE) THEN 1 ELSE 0
    IN  IF /\ atr_normalized # NaN
           /\ atr_normalized * ChoppyAtrDen > ChoppyAtrNum * FP_SCALE
           /\ nan_lt(adx, ChoppyAdx * FP_SCALE)
        THEN 2 ELSE trend

\* the columns of a frame
columns(d) == IF d = <<>> THEN {} ELSE DOMAIN d[1]

\* the exception build_features raises on a frame, or "none": df['high'],
\* df['low'], df['close'] (calculate_ichimoku) and df['tick_volume'] raise
\* KeyError; without a 'timestamp' column the index stays a RangeIndex and
\* df.index.hour raises AttributeError; 'open' is never read and a missing
\* 'spread' is replaced
build_features_error(cols) ==
    IF ~({"high", "low", "close", "tick_volume"} \subseteq cols) THEN "KeyError"
    ELSE IF "timestamp" \notin cols THEN "AttributeError"
    ELSE "none"

\* if 'spread' not in df.columns: df['spread'] = 0.0
spread_column(row) == IF "spread" \in DOMAIN row THEN row.spread ELSE 0

\* build_features: the 15 columns of FEATURE_LIST_V1 and the indicator
\* columns read by later steps, row by row
build_features(d) ==
    LET n == Len(d)
        close == col_close(d)
        ichimoku == calculate_ichimoku(d)
        atr == calculate_atr(d, atr_period)
        adx == calculate_adx(d, adx_period)
        tenkan_slope == calculate_slope(ichimoku.tenkan_sen, SlopeLookback)
        kijun_slope == calculate_slope(ichimoku.kijun_sen, SlopeLookback)
        cloud_thickness == Column([i \in 1..n |->
            fp_muldiv(nan_sub(ichimoku.senkou_span_a[i], ichimoku.senkou_span_b[i]),
                      FP_SCALE, nan_add(atr[i], Epsilon))], n)
        kumo_top == Column([i \in 1..n |->
            row_max({ichimoku.senkou_span_a[i], ichimoku.senkou_span_b[i]})], n)
        kumo_bottom == Column([i \in 1..n |->
            row_min({ichimoku.senkou_span_a[i], ichimoku.senkou_span_b[i]})], n)
        price_26_ago == shift(close, kijun_period)
        atr_normalized == Column([i \in 1..n |->
            fp_muldiv(atr[i], AtrNormScale * FP_SCALE, close[i])], n)
        tick_volume == col_tick_volume(d)
        avg_volume == rolling_mean(tick_volume, AvgWindow)
        candle_range == Column([i \in 1..n |-> d[i].high - d[i].low], n)
        avg_range == rolling_mean(candle_range, AvgWindow)
    IN  Column([i \in 1..n |->
            [tenkan_slope |-> tenkan_slope[i],
             kijun_slope |-> kijun_slope[i],
             cloud_thickness |-> cloud_thickness[i],
             price_kumo_distance |->
                 calc_price_kumo_distance(close[i], kumo_top[i], kumo_bottom[i], atr[i]),
             chikou_relative_position |->
                 fp_muldiv(nan_sub(ichimoku.chikou_span[i], price_26_ago[i]),
                           ChikouScale * FP_SCALE, price_26_ago[i]),
             atr_normalized |-> atr_normalized[i],
             adx |-> adx[i],
             tick_volume_spike |->
                 fp_muldiv(tick_volume[i], FP_SCALE, nan_add(avg_volume[i], Epsilon)),
             broker_hour |-> index_hour(d[i].timestamp),
             session_id |-> get_session_id(index_hour(d[i].timestamp)),
             spread |-> spread_column(d[i]),
             candle_compression |->
                 fp_muldiv(candle_range[i], FP_SCALE, nan_add(avg_range[i], Epsilon)),
             momentum_strength |-> fp_muldiv(tenkan_slope[i], adx[i], FP_SCALE),
             relative_kumo_strength |->
                 fp_muldiv(cloud_thickness[i], 10 * FP_SCALE,
                           IF atr_normalized[i] = NaN THEN NaN
                           ELSE 10 * atr_normalized[i] + 1),
             regime_flag |-> regime_flag_of(adx[i], atr_normalized[i]),
             timestamp |-> d[i].timestamp,
             close |-> d[i].close,
             high |-> d[i].high,
             low |-> d[i].low,
             atr |-> atr[i],
             senkou_span_a |-> ichimoku.senkou_span_a[i],
             senkou_span_b |-> ichimoku.senkou_span_b[i]]], n)

\* ------------------------------------------------------------------
\* Inputs of the feature engine
\* ------------------------------------------------------------------
\* bars of a history
MaxBars == 105
\* one pip, in price units
Pip == FP_SCALE

\* hourly price paths around base_price: 1 a trend with a ripple, 2 a
\* range, 3 and 4 strictly rising closes (even and uneven steps), 5 a flat
\* series, 6 a flat close under constant wicks, 7 a trend that turns into a
\* range after TurnBar bars
PathKinds == 1..7
TurnBar == MaxBars \div 3
RisingKinds == {3, 4}

PathClose(kind, i) ==
    CASE kind = 1 -> base_price * Pip + 2 * Pip * i + 3 * Pip * (i % 4)
      [] kind = 2 -> base_price * Pip + Pip * Abs((i % 16) - 8) * 5
      [] kind = 3 -> base_price * Pip + 3 * Pip * i
      [] kind = 4 -> base_price * Pip + 3 * Pip * i + Pip * (i % 3)
      [] kind = 7 -> IF i <= TurnBar THEN base_price * Pip + 3 * Pip * i
                     ELSE base_price * Pip + 3 * Pip * TurnBar
                              + Pip * (Abs((i % 16) - 8) - 8) * 5
      [] OTHER -> base_price * Pip

\* the wick above the body and below it: 0.05 on the rising paths
PathWick(kind) ==
    CASE kind \in RisingKinds -> 5 * Pip
      [] kind = 5 -> 0
      [] OTHER -> 2 * Pip

PathCandle(kind, i) ==
    LET c == PathClose(kind, i)
        o == IF i = 1 THEN c ELSE PathClose(kind, i - 1)
    IN  [timestamp |-> Epoch + i,
         open |-> o,
         high |-> (IF kind \in RisingKinds THEN c ELSE SetMax({o, c})) + PathWick(kind),
         low |-> (IF kind \in RisingKinds THEN c ELSE SetMin({o, c})) - PathWick(kind),
         close |-> c,
         tick_volume |-> 100 + 10 * (i % 7),
         spread |-> 2 + (i % 3)]

\* load_data: required_columns
RequiredColumns ==
    {"timestamp", "open", "high", "low", "close", "tick_volume", "spread"}

\* a frame read from a file that lacks one column
DropColumn(row, col) == [f \in (DOMAIN row) \ {col} |-> row[f]]

PerturbedFields == {"close", "high", "low", "tick_volume"}

\* the same candle with one field moved, still low <= close <= high
Perturb(c, field) ==
    CASE field = "close" -> [c EXCEPT !.close = @ + Pip]
      [] field = "high" -> [c EXCEPT !.high = @ + Pip]
      [] field = "low" -> [c EXCEPT !.low = @ - Pip]
      [] OTHER -> [c EXCEPT !.tick_volume = @ + 50]

\* two histories that agree on every bar up to agree_upto and differ in one
\* field of the bar after it; the first two paths are perturbed at every bar,
\* the others at the last bar only; a frame may lack one required column
FEInit ==
    /\ \E kind \in PathKinds, p \in 1..MaxBars, field \in PerturbedFields,
          missing \in RequiredColumns \cup {"none"} :
          /\ kind > 2 => (p = MaxBars /\ field = "close")
          /\ missing # "none" => (kind = 1 /\ p = MaxBars /\ field = "close")
          /\ candles = [i \in 1..MaxBars |-> DropColumn(PathCandle(kind, i), missing)]
          /\ candles2 = [i \in 1..MaxBars |->
                DropColumn(IF i = p THEN Perturb(PathCandle(kind, i), field)
                           ELSE PathCandle(kind, i), missing)]
          /\ agree_upto = p - 1
    /\ df_features = <<>>
    /\ df_features2 = <<>>
    /\ fe_error = "none"

InitFE == FEInit /\ WFIdle /\ LGIdle /\ PDIdle /\ EVIdle /\ EXIdle /\ CDIdle

\* FeatureEngineer.build_features, run on each of the two histories (which
\* have the same columns)
BuildFeatures ==
    /\ candles # <<>> /\ df_features = <<>> /\ fe_error = "none"
    /\ fe_error' = build_features_error(columns(candles))
    /\ IF build_features_error(columns(candles)) = "none"
       THEN /\ df_features' = build_features(candles)
            /\ df_features2' = build_features(candles2)
       ELSE UNCHANGED <<df_features, df_features2>>
    /\ UNCHANGED <<wfvars, lgvars, pdvars, evvars, exvars, cdvars, candles, candles2, agree_upto>>

NextFE == BuildFeatures

SpecFE == InitFE /\ [][NextFE]_vars

\* ------------------------------------------------------------------
\* Claims about the feature engine
\* ------------------------------------------------------------------
FeaturesBuilt == df_features # <<>>

\* C1 (as claimed): for every bar i the two histories agree up to, each of
\* the 15 features of bar i is the same in both: no feature at bar i depends
\* on a candle after bar i.
C1_NoLookAhead ==
    FeaturesBuilt =>
        \A i \in 1..agree_upto : \A k \in 1..Len(FEATURE_LIST_V1) :
            df_features[i][FEATURE_LIST_V1[k]] = df_features2[i][FEATURE_LIST_V1[k]]

\* C12 (as claimed): in the table build_features returns, a feature is NaN
\* at every bar where an indicator it is derived from is NaN; in particular
\* price_kumo_distance is NaN where either lagged band midpoint is NaN.
C12_UndefinedPropagates ==
    FeaturesBuilt =>
        \A i \in 1..Len(df_features) :
            LET row == df_features[i]
            IN  /\ (row.senkou_span_a = NaN \/ row.senkou_span_b = NaN \/ row.atr = NaN)
                      => /\ row.price_kumo_distance = NaN
                         /\ row.cloud_thickness = NaN
                         /\ row.relative_kumo_strength = NaN
                /\ row.adx = NaN
                      => (row.momentum_strength = NaN /\ row.regime_flag = NaN)

\* strictly increasing closes with high = close + 0.05 and low = close - 0.05
IsRising(d) ==
    \A i \in 1..Len(d) :
        /\ d[i].high = d[i].close + 5 * Pip
        /\ d[i].low = d[i].close - 5 * Pip
        /\ i > 1 => d[i].close > d[i - 1].close

AdxDefined == {i \in 1..Len(df_features) : df_features[i].adx # NaN}
AdxAbove25(i) == i \in AdxDefined /\ df_features[i].adx > TrendAdx * FP_SCALE

\* regime_flag is 0 up to the bar where ADX first exceeds 25, 1 at that bar,
\* and never 2 from there on
RegimeFollowsAdx ==
    \E f \in 1..Len(df_features) :
        /\ AdxAbove25(f)
        /\ df_features[f].regime_flag = 1
        /\ \A i \in 1..(f - 1) : ~AdxAbove25(i) /\ df_features[i].regime_flag = 0
        /\ \A i \in f..Len(df_features) : df_features[i].regime_flag # 2

\* C18 (as claimed): on rising bars the ADX series trends upward over the
\* bars where it is defined (it never falls and it rises), and regime_flag
\* goes from 0 to 1 at the bar where ADX first exceeds 25 and is never 2
\* afterwards.
C18_AdxTrendsUp ==
    (FeaturesBuilt /\ IsRising(candles)) =>
        /\ \A i, j \in AdxDefined :
              i < j => df_features[i].adx <= df_features[j].adx
        /\ \E i, j \in AdxDefined :
              i < j /\ df_features[i].adx < df_features[j].adx
        /\ RegimeFollowsAdx

\* C18 (amended): on rising bars ADX is 100 at every bar where it is
\* defined, and regime_flag goes from 0 to 1 at the first bar where ADX is
\* defined and is never 2 afterwards.
C18_AdxSaturated ==
    (FeaturesBuilt /\ IsRising(candles)) =>
        /\ \A i \in AdxDefined : df_features[i].adx = Percent * FP_SCALE
        /\ RegimeFollowsAdx

\* rising bars whose regime_flag steps from 0 to 1
C18_Witness ==
    /\ FeaturesBuilt /\ IsRising(candles)
    /\ \E i \in 1..(Len(df_features) - 1) :
          /\ df_features[i].regime_flag = 0 /\ df_features[i].adx = NaN
          /\ df_features[i + 1].regime_flag = 1

\* C19 (as claimed): a frame that lacks a required candle column is rejected
\* with an error; no features are built from it.
C19_MissingColumnRejected ==
    ~(RequiredColumns \subseteq columns(candles)) => ~FeaturesBuilt

\* C20 (as claimed): where +DI + -DI is 0 over the whole ADX window the ADX
\* value is the fallback 0, and where ATR is 0 under a defined cloud the
\* ATR-normalized features are 0.
C20_DivisionFallback ==
    FeaturesBuilt =>
        LET di == directional_indicators(candles, adx_period)
            di_sum_zero(j) ==
                /\ di.plus_di[j] # NaN /\ di.minus_di[j] # NaN
                /\ di.plus_di[j] + di.minus_di[j] = 0
        IN  \A i \in 1..Len(df_features) :
                /\ (i >= adx_period /\ \A j \in rolling_window(i, adx_period) : di_sum_zero(j))
                      => df_features[i].adx = 0
                /\ (/\ df_features[i].atr = 0
                    /\ df_features[i].senkou_span_a # NaN
                    /\ df_features[i].senkou_span_b # NaN)
                      => /\ df_features[i].cloud_thickness = 0
                         /\ df_features[i].price_kumo_distance = 0
                         /\ df_features[i].relative_kumo_strength = 0

\* C26: for every bar, regime_flag is 1 if adx > 25, otherwise 2 if
\* atr_normalized > 1.5 and adx < 20, otherwise 0; it is one of 0, 1, 2; and
\* for every pair (adx, atr_normalized), a NaN included, the two-step
\* overwrite of detect_market_regime gives what this priority order gives.
RegimeByPriority(adx, atr_normalized) ==
    IF adx # NaN /\ adx > TrendAdx * FP_SCALE THEN 1
    ELSE IF /\ atr_normalized # NaN /\ adx # NaN
            /\ atr_normalized * ChoppyAtrDen > ChoppyAtrNum * FP_SCALE
            /\ adx < ChoppyAdx * FP_SCALE
         THEN 2
    ELSE 0

\* values on both sides of, and on, each threshold
AdxGrid ==
    {NaN, 0} \cup {t * FP_SCALE + e : t \in {ChoppyAdx, TrendAdx, Percent}, e \in {0 - 1, 0, 1}}
AtrNormGrid ==
    {NaN, 0} \cup {(ChoppyAtrNum * FP_SCALE) \div ChoppyAtrDen + e : e \in {0 - 1, 0, 1}}

C26_RegimePriority ==
    /\ \A adx \in AdxGrid, atr_normalized \in AtrNormGrid :
          regime_flag_of(adx, atr_normalized) = RegimeByPriority(adx, atr_normalized)
    /\ FeaturesBuilt =>
          \A i \in 1..Len(df_features) :
              /\ df_features[i].regime_flag \in {0, 1, 2}
              /\ df_features[i].regime_flag =
                    RegimeByPriority(df_features[i].adx, df_features[i].atr_normalized)

\* a built table with a range bar, a trend bar and a choppy bar, and a trend
\* bar whose atr_normalized is above 1.5
C26_Witness ==
    /\ FeaturesBuilt
    /\ \A f \in {0, 1, 2} : \E i \in 1..Len(df_features) : df_features[i].regime_flag = f
    /\ \E i \in 1..Len(df_features) :
          /\ df_features[i].regime_flag = 1
          /\ df_features[i].atr_normalized * ChoppyAtrDen > ChoppyAtrNum * FP_SCALE

\* ==================================================================
\* train_model.py: the data path of main
\* ==================================================================
\* np.nan_to_num(..., nan=0.0, posinf=0.0, neginf=0.0)
nan_to_num(x) == IF x = NaN THEN 0 ELSE x

\* FeatureEngineer._get_feature_names
feature_names == FEATURE_LIST_V1

\* get_feature_vector: df[self.feature_names].values, then nan_to_num
get_feature_vector(table) ==
    Column([i \in 1..Len(table) |->
        Column([k \in 1..Len(feature_names) |->
            nan_to_num(table[i][feature_names[k]])], Len(feature_names))], Len(table))

\* prepare_dataset: (df_features, X)
dataset_of(table) == [df_features |-> table, X |-> get_feature_vector(table)]

prepare_dataset(d) == dataset_of(build_features(d))

\* the candles of the frame as the label generator reads them: prices in pips
candles_in_pips(table) ==
    Column([i \in 1..Len(table) |->
        [close |-> table[i].close \div Pip,
         high |-> table[i].high \div Pip,
         low |-> table[i].low \div Pip]], Len(table))

\* prepare_data, the call of generate_labels_with_metadata on the frame's
\* candles, price_kumo_distance and atr
label_data_of(table) ==
    Column(generate_labels_with_metadata(
               candles_in_pips(table),
               Column([i \in 1..Len(table) |-> table[i].price_kumo_distance], Len(table)),
               Column([i \in 1..Len(table) |-> table[i].atr], Len(table))),
           Len(table))

\* prepare_data, the filter: X[valid_mask], label[valid_mask],
\* df_features[valid_mask]
filter_valid(ds, labels) ==
    LET n == Len(labels)
        valid_mask(i) == labels[i].is_valid
        kept == SelectSeq(Column([i \in 1..n |-> i], n), valid_mask)
    IN  [X |-> Column([k \in 1..Len(kept) |-> ds.X[kept[k]]], Len(kept)),
         y |-> Column([k \in 1..Len(kept) |-> labels[kept[k]].label], Len(kept)),
         df_features |->
             Column([k \in 1..Len(kept) |-> ds.df_features[kept[k]]], Len(kept)),
         bars |-> kept]

labelled_dataset(ds) == filter_valid(ds, label_data_of(ds.df_features))

\* ModelTrainer.prepare_data: features, labels, and the filter on is_valid
prepare_data(d) == labelled_dataset(prepare_dataset(d))

\* the columns of the frame, in order: those of the candles, then the ones
\* build_features adds (the timestamp becomes the index)
CandleColumns == <<"timestamp", "open", "high", "low", "close", "tick_volume", "spread">>
AddedColumns ==
    <<"tenkan_sen", "kijun_sen", "senkou_span_a", "senkou_span_b", "chikou_span",
      "atr", "adx", "tenkan_slope", "kijun_slope", "cloud_thickness", "kumo_top",
      "kumo_bottom", "price_kumo_distance", "price_26_ago",
      "chikou_relative_position", "atr_normalized", "avg_volume",
      "tick_volume_spike", "broker_hour", "session_id", "candle_range",
      "avg_range", "candle_compression", "momentum_strength",
      "relative_kumo_strength", "regime_flag">>

Has(cols, c) == \E k \in 1..Len(cols) : cols[k] = c
Without(cols, c) == LET keep(x) == x # c IN SelectSeq(cols, keep)

build_features_columns(cols) ==
    Without(cols, "timestamp")
        \o (IF Has(cols, "spread") THEN <<>> ELSE <<"spread">>)
        \o AddedColumns

\* main: df_features['label'] = y; df_features.reset_index(); then
\* walk_forward_validation: df.set_index('timestamp')
walk_forward_columns(cols) ==
    Without(<<"timestamp">> \o cols \o <<"label">>, "timestamp")

\* mutant: the frame's columns filtered by the list, in the frame's order
wf_features_frame_order(cols) ==
    LET listed(c) == Has(FEATURE_LIST_V1, c) IN SelectSeq(cols, listed)

\* FEATURES = [f for f in FEATURE_LIST_V1 if f in df.columns]
wf_features(cols) ==
    LET present(f) == Has(cols, f) IN SelectSeq(FEATURE_LIST_V1, present)

\* train_data[FEATURES], test_data[FEATURES]: the frame's own cells
frame_cell(table, features, r, k) == table[r][features[k]]

\* StandardScaler.fit_transform / transform leave a NaN cell NaN and make
\* every other cell a finite number: a scaled matrix is kept by its rows and
\* its NaN cells
frame_nan_cells(table, features, rows) ==
    {c \in rows \X (1..Len(features)) : frame_cell(table, features, c[1], c[2]) = NaN}

matrix_nan_cells(X, rows) ==
    {c \in rows \X (1..Len(feature_names)) : X[c[1]][c[2]] = NaN}

\* ------------------------------------------------------------------
\* Inputs of main
\* ------------------------------------------------------------------
\* bars of the history main loads
PDBars == 900
\* hours between two bars
BarHoursChoices == {6, 8}
PDKinds == 1..4

PDCandle(kind, i, h) == [PathCandle(kind, i) EXCEPT !.timestamp = Epoch + h * i]

PDInit ==
    /\ \E kind \in PDKinds, h \in BarHoursChoices, n \in (PDBars - 1)..PDBars :
          raw_df = [i \in 1..n |-> PDCandle(kind, i, h)]
    /\ pd_pc = "START"
    /\ pd_X = <<>> /\ pd_y = <<>> /\ pd_df_features = <<>> /\ pd_bars = <<>>
    /\ wf_columns = <<>> /\ FEATURES = <<>>
    /\ pd_fold = 0 /\ pd_scored = 0 /\ model_inputs = <<>>

InitPD == PDInit /\ WFIdle /\ LGIdle /\ FEIdle /\ EVIdle /\ EXIdle /\ CDIdle

\* main: X, y, df_features = trainer.prepare_data(df)
PrepareData ==
    /\ pd_pc = "START"
    /\ \E out \in {prepare_data(raw_df)} :
           /\ pd_X' = out.X
           /\ pd_y' = out.y
           /\ pd_df_features' = out.df_features
           /\ pd_bars' = out.bars
    /\ pd_pc' = "PREPARED"
    /\ UNCHANGED <<wfvars, lgvars, fevars, evvars, exvars, cdvars, raw_df, wf_columns, FEATURES, pd_fold,
                   pd_scored, model_inputs>>

\* main adds the label column and calls walk_forward_validation, which
\* indexes the frame by timestamp and picks its feature columns
WalkForwardEnter ==
    /\ pd_pc = "PREPARED"
    /\ wf_columns' = walk_forward_columns(build_features_columns(CandleColumns))
    /\ FEATURES' = wf_features(walk_forward_columns(build_features_columns(CandleColumns)))
    /\ pd_fold' = 0
    /\ pd_pc' = "WALK_FORWARD"
    /\ UNCHANGED <<wfvars, lgvars, fevars, evvars, exvars, cdvars, raw_df, pd_X, pd_y, pd_df_features,
                   pd_bars, pd_scored, model_inputs>>

\* one turn of the fold loop of walk_forward_validation
WalkForwardFold ==
    /\ pd_pc = "WALK_FORWARD" /\ pd_fold < DefaultSplits
    /\ LET index == [r \in 1..Len(pd_df_features) |-> pd_df_features[r].timestamp]
           first == SetMin({index[r] : r \in 1..Len(index)})
           train == TrainRows(index, first, DefaultTrainMonths, pd_fold)
           test == TestRows(index, first, DefaultTrainMonths, DefaultTestMonths, pd_fold)
       IN  IF Cardinality(test) < MinTestSamples
           THEN UNCHANGED <<model_inputs, pd_scored>>
           ELSE /\ model_inputs' = model_inputs \o
                     <<[by |-> "walk_forward_validation", call |-> "fit",
                        columns |-> FEATURES, rows |-> train,
                        nan_cells |-> frame_nan_cells(pd_df_features, FEATURES, train)],
                       [by |-> "walk_forward_validation", call |-> "predict",
                        columns |-> FEATURES, rows |-> test,
                        nan_cells |-> frame_nan_cells(pd_df_features, FEATURES, test)]>>
                /\ pd_scored' = pd_scored + 1
    /\ pd_fold' = skip_continue(pd_fold, DefaultSplits)
    /\ UNCHANGED <<wfvars, lgvars, fevars, evvars, exvars, cdvars, raw_df, pd_pc, pd_X, pd_y, pd_df_features,
                   pd_bars, wf_columns, FEATURES>>

\* walk_forward_validation returns; main's gate on its result (the accuracy
\* is the models' own: with a scored fold the gate can go either way)
MainAccept ==
    /\ pd_pc = "WALK_FORWARD" /\ pd_fold = DefaultSplits
    /\ pd_scored > 0
    /\ pd_pc' = "TRAIN"
    /\ pd_fold' = 0
    /\ UNCHANGED <<wfvars, lgvars, fevars, evvars, exvars, cdvars, raw_df, pd_X, pd_y, pd_df_features, pd_bars,
                   wf_columns, FEATURES, pd_scored, model_inputs>>

MainReject ==
    /\ pd_pc = "WALK_FORWARD" /\ pd_fold = DefaultSplits
    /\ pd_pc' = "REJECTED"
    /\ UNCHANGED <<wfvars, lgvars, fevars, evvars, exvars, cdvars, raw_df, pd_X, pd_y, pd_df_features, pd_bars,
                   wf_columns, FEATURES, pd_fold, pd_scored, model_inputs>>

\* one fold of train_with_walk_forward(X, y, n_splits=5)
TimeSeriesFold ==
    /\ pd_pc = "TRAIN" /\ pd_fold < FinalSplits
    /\ LET n == Len(pd_X)
           train == tss_train(n, FinalSplits, pd_fold + 1)
           val == tss_val(n, FinalSplits, pd_fold + 1)
       IN  model_inputs' = model_inputs \o
               <<[by |-> "train_with_walk_forward", call |-> "fit",
                  columns |-> feature_names, rows |-> train,
                  nan_cells |-> matrix_nan_cells(pd_X, train)],
                 [by |-> "train_with_walk_forward", call |-> "predict",
                  columns |-> feature_names, rows |-> val,
                  nan_cells |-> matrix_nan_cells(pd_X, val)]>>
    /\ pd_fold' = pd_fold + 1
    /\ UNCHANGED <<wfvars, lgvars, fevars, evvars, exvars, cdvars, raw_df, pd_pc, pd_X, pd_y, pd_df_features,
                   pd_bars, wf_columns, FEATURES, pd_scored>>

\* the final model of train_with_walk_forward, fitted on all of X
FinalFit ==
    /\ pd_pc = "TRAIN" /\ pd_fold = FinalSplits
    /\ model_inputs' = Append(model_inputs,
           [by |-> "train_with_walk_forward", call |-> "fit",
            columns |-> feature_names, rows |-> 1..Len(pd_X),
            nan_cells |-> matrix_nan_cells(pd_X, 1..Len(pd_X))])
    /\ pd_pc' = "TRAINED"
    /\ UNCHANGED <<wfvars, lgvars, fevars, evvars, exvars, cdvars, raw_df, pd_X, pd_y, pd_df_features, pd_bars,
                   wf_columns, FEATURES, pd_fold, pd_scored>>

NextPD ==
    \/ PrepareData
    \/ WalkForwardEnter
    \/ WalkForwardFold
    \/ MainAccept
    \/ MainReject
    \/ TimeSeriesFold
    \/ FinalFit

SpecPD == InitPD /\ [][NextPD]_vars

\* ------------------------------------------------------------------
\* Claims about the data path
\* ------------------------------------------------------------------
Prepared == pd_pc \notin {"IDLE", "START"}
InsideWalkForward == pd_pc \notin {"IDLE", "START", "PREPARED"}

\* C11 (as claimed): every matrix given to a model for fitting or prediction,
\* in walk_forward_validation and in train_with_walk_forward, has no NaN
\* cell.
C11_FiniteModelInputs ==
    \A m \in 1..Len(model_inputs) : model_inputs[m].nan_cells = {}

\* C13: inside walk_forward_validation the feature columns are the 15 names
\* of FEATURE_LIST_V1 in that order, and column k of the vector
\* get_feature_vector returned holds the same feature as column k there.
C13_FeatureOrder ==
    InsideWalkForward =>
        /\ FEATURES = FEATURE_LIST_V1
        /\ \A m \in 1..Len(model_inputs) : model_inputs[m].columns = FEATURE_LIST_V1
        /\ \A r \in 1..Len(pd_X) :
              /\ Len(pd_X[r]) = Len(FEATURES)
              /\ \A k \in 1..Len(FEATURES) :
                    pd_X[r][k] = nan_to_num(pd_df_features[r][FEATURES[k]])

\* both validations have fitted a model on the prepared samples
C13_Witness ==
    /\ pd_pc = "TRAINED"
    /\ Len(pd_X) > 0
    /\ \E m \in 1..Len(model_inputs) : model_inputs[m].by = "walk_forward_validation"

\* C16 (as claimed): every sample prepare_data returns has label 0 or 1 and
\* comes from a bar with a full forward window.
C16_SamplesHaveForwardWindow ==
    Prepared =>
        \A k \in 1..Len(pd_y) :
            /\ pd_y[k] \in {0, 1}
            /\ pd_bars[k] + lookforward_candles <= Len(raw_df)

\* ==================================================================
\* train_model.py: the metrics of a fold
\* ==================================================================
\* y_pred_proba >= 0.5 in evaluate_model, >= 0.72 in walk_forward_validation
EvalThreshold == 500
TradeThreshold == 720
\* 30 if np.random.rand() > 0.5 else -20
WinPnl == 30
LossPnl == 20
WinDraw == 500
\* np.sqrt(252)
AnnualPeriods == 252
\* the Sharpe ratio is kept in hundredths
SharpeScale == FP_SCALE \div 10

\* (y_pred_proba >= threshold).astype(int)
threshold_predict(proba, thr) ==
    Column([i \in 1..Len(proba) |-> IF proba[i] >= thr THEN 1 ELSE 0], Len(proba))

true_positives(y, y_hat) == Cardinality({i \in 1..Len(y) : y[i] = 1 /\ y_hat[i] = 1})
false_positives(y, y_hat) == Cardinality({i \in 1..Len(y) : y[i] = 0 /\ y_hat[i] = 1})
false_negatives(y, y_hat) == Cardinality({i \in 1..Len(y) : y[i] = 1 /\ y_hat[i] = 0})

\* sklearn.metrics.accuracy_score
accuracy_score(y, y_hat) ==
    IF Len(y) = 0 THEN NaN
    ELSE (Cardinality({i \in 1..Len(y) : y[i] = y_hat[i]}) * FP_SCALE) \div Len(y)

\* precision_score, recall_score, f1_score with zero_division=0
precision_score(y, y_hat) ==
    IF true_positives(y, y_hat) + false_positives(y, y_hat) = 0 THEN 0
    ELSE (true_positives(y, y_hat) * FP_SCALE)
             \div (true_positives(y, y_hat) + false_positives(y, y_hat))

recall_score(y, y_hat) ==
    IF true_positives(y, y_hat) + false_negatives(y, y_hat) = 0 THEN 0
    ELSE (true_positives(y, y_hat) * FP_SCALE)
             \div (true_positives(y, y_hat) + false_negatives(y, y_hat))

f1_score(y, y_hat) ==
    IF 2 * true_positives(y, y_hat) + false_positives(y, y_hat)
           + false_negatives(y, y_hat) = 0 THEN 0
    ELSE (2 * true_positives(y, y_hat) * FP_SCALE)
             \div (2 * true_positives(y, y_hat) + false_positives(y, y_hat)
                      + false_negatives(y, y_hat))

\* roc_auc_score: the share of (positive, negative) pairs the scores rank
\* right, ties counting a half; with one class only it raises ValueError,
\* kept as NaN
roc_auc_score(y, proba) ==
    LET pos == {i \in 1..Len(y) : y[i] = 1}
        neg == {i \in 1..Len(y) : y[i] = 0}
    IN  IF pos = {} \/ neg = {} THEN NaN
        ELSE (Cardinality({c \in pos \X neg : proba[c[1]] > proba[c[2]]}) * 2 * FP_SCALE
              + Cardinality({c \in pos \X neg : proba[c[1]] = proba[c[2]]}) * FP_SCALE)
                 \div (2 * Cardinality(pos) * Cardinality(neg))

\* mutant: the guard on the number of classes is left out
roc_auc_unguarded(y, proba) == roc_auc_score(y, proba)

\* roc_auc_score(y, y_pred_proba) if len(np.unique(y)) > 1 else 0.0
roc_auc_or_zero(y, proba) ==
    IF Cardinality({y[i] : i \in 1..Len(y)}) > 1 THEN roc_auc_score(y, proba) ELSE 0

\* the metrics dictionary of evaluate_model and of a fold
classification_metrics(y, y_hat, proba) ==
    [accuracy |-> accuracy_score(y, y_hat),
     precision |-> precision_score(y, y_hat),
     recall |-> recall_score(y, y_hat),
     f1_score |-> f1_score(y, y_hat),
     roc_auc |-> roc_auc_or_zero(y, proba)]

\* ModelTrainer.evaluate_model
evaluate_model(y, proba) ==
    classification_metrics(y, threshold_predict(proba, EvalThreshold), proba)

\* ------------------------------------------------------------------
\* calculate_trading_metrics
\* ------------------------------------------------------------------
\* the draw the k-th call of np.random.rand() returns
trade_outcome(draw) == IF draw > WinDraw THEN WinPnl ELSE 0 - LossPnl

positives_upto(prediction, i) == Cardinality({j \in 1..i : prediction[j] = 1})

\* df['pnl'] = 0.0, then one draw for each bar with prediction 1, in order
simulate_pnl(prediction, rng) ==
    Column([i \in 1..Len(prediction) |->
        IF prediction[i] = 1
        THEN trade_outcome(rng[positives_upto(prediction, i)])
        ELSE 0], Len(prediction))

\* the generator after the call
rng_after(prediction, rng) ==
    SubSeq(rng, positives_upto(prediction, Len(prediction)) + 1, Len(rng))

\* s[lo] + ... + s[hi], halving the range
RECURSIVE SumRange(_, _, _)
SumRange(s, lo, hi) ==
    IF lo > hi THEN 0
    ELSE IF lo = hi THEN s[lo]
    ELSE SumRange(s, lo, (lo + hi) \div 2) + SumRange(s, (lo + hi) \div 2 + 1, hi)

SumUpto(s, i) == SumRange(s, 1, i)

cumsum(s) == Column([i \in 1..Len(s) |-> SumUpto(s, i)], Len(s))
cummax(s) == Column([i \in 1..Len(s) |-> SetMax({s[j] : j \in 1..i})], Len(s))

\* Series.min(): NaN on an empty Series
series_min(s) == IF s = <<>> THEN NaN ELSE SetMin({s[i] : i \in 1..Len(s)})

\* (cumulative_pnl - cumulative_pnl.cummax()).min()
max_drawdown(cumulative_pnl, running_max) ==
    series_min(Column([i \in 1..Len(cumulative_pnl) |->
                   cumulative_pnl[i] - running_max[i]], Len(cumulative_pnl)))

RECURSIVE SqrtBetween(_, _, _)
SqrtBetween(v, lo, hi) ==
    IF lo = hi THEN lo
    ELSE IF ((lo + hi + 1) \div 2) * ((lo + hi + 1) \div 2) <= v
         THEN SqrtBetween(v, (lo + hi + 1) \div 2, hi)
         ELSE SqrtBetween(v, lo, (lo + hi + 1) \div 2 - 1)

\* the P&L of a bar in units of 10 pips (it is 30, -20 or 0): mean / std
\* is the same in any unit
TenPips(pnl) == Column([i \in 1..Len(pnl) |-> TruncDiv(pnl[i], 10)], Len(pnl))

\* n * sum(x^2) - sum(x)^2, which is n (n - 1) times the variance (ddof 1)
variance_numerator(x) ==
    Len(x) * SumUpto(Column([i \in 1..Len(x) |-> x[i] * x[i]], Len(x)), Len(x))
        - SumUpto(x, Len(x)) * SumUpto(x, Len(x))

\* returns.std() > 0: the std of fewer than two rows is NaN
std_positive(pnl) == Len(pnl) >= 2 /\ variance_numerator(TenPips(pnl)) > 0

\* |mean / std| * sqrt(252) = sqrt(252 (n - 1) sum^2 / (n V)); 46340 is the
\* largest root of a 32-bit integer
sharpe_magnitude(x) ==
    SqrtBetween(
        MulDivQR(SumUpto(x, Len(x)) * SumUpto(x, Len(x)) * AnnualPeriods,
                 (Len(x) - 1) * SharpeScale * SharpeScale,
                 Len(x) * variance_numerator(x))[1],
        0, 46340)

\* returns.mean() / returns.std() * np.sqrt(252) if returns.std() > 0 else 0
sharpe_ratio(pnl) ==
    IF ~std_positive(pnl) THEN 0
    ELSE IF SumUpto(pnl, Len(pnl)) < 0 THEN 0 - sharpe_magnitude(TenPips(pnl))
    ELSE sharpe_magnitude(TenPips(pnl))

\* mutant: the wins are divided by the number of bars
win_rate_of_bars(prediction, pnl) ==
    IF positives_upto(prediction, Len(prediction)) = 0 THEN 0
    ELSE (Cardinality({i \in 1..Len(pnl) : prediction[i] = 1 /\ pnl[i] > 0}) * FP_SCALE)
             \div Len(prediction)

\* (trades['pnl'] > 0).sum() / len(trades) if len(trades) > 0 else 0
win_rate(prediction, pnl) ==
    IF positives_upto(prediction, Len(prediction)) = 0 THEN 0
    ELSE (Cardinality({i \in 1..Len(pnl) : prediction[i] = 1 /\ pnl[i] > 0}) * FP_SCALE)
             \div positives_upto(prediction, Len(prediction))

\* the dictionary calculate_trading_metrics returns, for the P&L it drew
trading_metrics_of(prediction, pnl, cumulative_pnl) ==
    [sharpe |-> sharpe_ratio(pnl),
     max_drawdown |-> max_drawdown(cumulative_pnl, cummax(cumulative_pnl)),
     win_rate |-> win_rate(prediction, pnl),
     total_trades |-> positives_upto(prediction, Len(prediction)),
     total_pnl |-> IF Len(cumulative_pnl) > 0
                   THEN cumulative_pnl[Len(cumulative_pnl)] ELSE 0]

pnl_metrics(prediction, pnl) == trading_metrics_of(prediction, pnl, cumsum(pnl))

calculate_trading_metrics(prediction, rng) ==
    pnl_metrics(prediction, simulate_pnl(prediction, rng))

\* the call as the caller and the function's frame see it
trading_call(prediction, rng) ==
    [prediction |-> prediction,
     pnl |-> simulate_pnl(prediction, rng),
     metrics |-> calculate_trading_metrics(prediction, rng)]

\* walk_forward_validation, lines 464-488: the metrics of a scored fold
fold_classification(f) ==
    classification_metrics(f.y_test,
                           threshold_predict(f.y_pred_proba, TradeThreshold),
                           f.y_pred_proba)

fold_trading(f, rng) ==
    calculate_trading_metrics(threshold_predict(f.y_pred_proba, TradeThreshold), rng)

\* ------------------------------------------------------------------
\* Inputs of the scoring
\* ------------------------------------------------------------------
\* folds of a harness run
MaxFolds == 2
\* rows of a direct call of evaluate_model or calculate_trading_metrics
MaxRows == 3

\* the labels of a test set and the probabilities a model gives it: 1 both
\* classes, every probability; 2 no positive label; 3 no negative label and
\* every probability between the two thresholds; 4 every bar predicted
\* positive
FoldKinds == 1..4
ProbaChoices == <<300, 600, 800>>

FoldLabel(kind, i) ==
    CASE kind = 1 -> i % 2
      [] kind = 2 -> 0
      [] kind = 3 -> 1
      [] OTHER -> IF i % 3 = 0 THEN 1 ELSE 0

FoldProba(kind, i) ==
    CASE kind \in {1, 2} -> ProbaChoices[(i % 3) + 1]
      [] kind = 3 -> ProbaChoices[2]
      [] OTHER -> ProbaChoices[3]

FoldData(kind, n) ==
    [y_test |-> Column([i \in 1..n |-> FoldLabel(kind, i)], n),
     y_pred_proba |-> Column([i \in 1..n |-> FoldProba(kind, i)], n)]

FoldChoices ==
    {FoldData(kind, n) : kind \in FoldKinds, n \in {MinTestSamples - 1, MinTestSamples}}

\* draws of np.random.rand(), below and above 0.5
DrawChoices == <<250, 750>>
RngKinds == 1..3
RngDraw(kind, k) ==
    CASE kind = 1 -> DrawChoices[(k % 2) + 1]
      [] kind = 2 -> DrawChoices[2]
      [] OTHER -> IF k % 3 = 0 THEN DrawChoices[1] ELSE DrawChoices[2]

RngStream(kind, n) == Column([k \in 1..n |-> RngDraw(kind, k)], n)

EVInit ==
    /\ \/ /\ ev_pc = "HARNESS"
          /\ ev_folds \in [1..MaxFolds -> FoldChoices]
          /\ \E kind \in RngKinds : ev_rng = RngStream(kind, MaxFolds * MinTestSamples)
          /\ ev_y = <<>> /\ ev_proba = <<>>
       \/ /\ ev_pc = "DIRECT"
          /\ ev_folds = <<>>
          /\ ev_rng \in [1..MaxRows -> {DrawChoices[k] : k \in 1..Len(DrawChoices)}]
          /\ \E m \in 0..MaxRows :
                /\ ev_y \in [1..m -> {0, 1}]
                /\ ev_proba \in [1..m -> {ProbaChoices[k] : k \in 1..Len(ProbaChoices)}]
    /\ ev_rng0 = ev_rng
    /\ ev_fold = 0
    /\ ev_results = <<>>
    /\ ev_metrics = <<>>
    /\ ev_trading = <<>>

InitEV == EVInit /\ WFIdle /\ LGIdle /\ FEIdle /\ PDIdle /\ EXIdle /\ CDIdle

\* lines 430-432: fewer than 100 test rows, the fold is left out
EvSkipFold ==
    /\ ev_pc = "HARNESS" /\ ev_fold < Len(ev_folds)
    /\ Len(ev_folds[ev_fold + 1].y_test) < MinTestSamples
    /\ ev_fold' = skip_continue(ev_fold, Len(ev_folds))
    /\ UNCHANGED <<wfvars, lgvars, fevars, pdvars, exvars, cdvars, ev_pc, ev_folds,
                   ev_rng, ev_rng0, ev_results, ev_y, ev_proba, ev_metrics, ev_trading>>

\* lines 464-488: predictions at 0.72, the metrics, the simulated trades
EvScoreFold ==
    /\ ev_pc = "HARNESS" /\ ev_fold < Len(ev_folds)
    /\ Len(ev_folds[ev_fold + 1].y_test) >= MinTestSamples
    /\ \E f \in {ev_folds[ev_fold + 1]} :
       \E y_hat \in {threshold_predict(f.y_pred_proba, TradeThreshold)} :
          /\ ev_results' = Append(ev_results,
                [fold |-> ev_fold + 1, test_size |-> Len(f.y_test),
                 classification |-> fold_classification(f),
                 trading |-> fold_trading(f, ev_rng)])
          /\ ev_trading' = trading_call(y_hat, ev_rng)
          /\ ev_rng' = rng_after(y_hat, ev_rng)
    /\ ev_fold' = ev_fold + 1
    /\ UNCHANGED <<wfvars, lgvars, fevars, pdvars, exvars, cdvars, ev_pc, ev_folds,
                   ev_rng0, ev_y, ev_proba, ev_metrics>>

\* lines 496-516: the loop is over
EvReturn ==
    /\ ev_pc = "HARNESS" /\ ev_fold = Len(ev_folds)
    /\ ev_pc' = "RETURNED"
    /\ UNCHANGED <<wfvars, lgvars, fevars, pdvars, exvars, cdvars, ev_folds, ev_fold,
                   ev_rng, ev_rng0, ev_results, ev_y, ev_proba, ev_metrics, ev_trading>>

\* a call of evaluate_model(model, X, y)
EvaluateModel ==
    /\ ev_pc = "DIRECT" /\ ev_metrics = <<>> /\ Len(ev_y) > 0
    /\ ev_metrics' = evaluate_model(ev_y, ev_proba)
    /\ UNCHANGED <<wfvars, lgvars, fevars, pdvars, exvars, cdvars, ev_pc, ev_folds,
                   ev_fold, ev_rng, ev_rng0, ev_results, ev_y, ev_proba, ev_trading>>

\* a call of calculate_trading_metrics on a frame whose predictions are those
\* of ev_proba at 0.72
TradingMetrics ==
    /\ ev_pc = "DIRECT" /\ ev_trading = <<>>
    /\ \E y_hat \in {threshold_predict(ev_proba, TradeThreshold)} :
          /\ ev_trading' = trading_call(y_hat, ev_rng)
          /\ ev_rng' = rng_after(y_hat, ev_rng)
    /\ UNCHANGED <<wfvars, lgvars, fevars, pdvars, exvars, cdvars, ev_pc, ev_folds,
                   ev_fold, ev_rng0, ev_results, ev_y, ev_proba, ev_metrics>>

NextEV ==
    \/ EvSkipFold
    \/ EvScoreFold
    \/ EvReturn
    \/ EvaluateModel
    \/ TradingMetrics

SpecEV == InitEV /\ [][NextEV]_vars

\* ==================================================================
\* Claims about the metrics of a fold
\* ==================================================================
SingleClass(y) == \A i, j \in 1..Len(y) : y[i] = y[j]

\* q is n / d rounded down, in thousandths
IsShare(q, n, d) == q * d <= n * FP_SCALE /\ n * FP_SCALE < (q + 1) * d

SingleClassCase(m, y, y_hat) ==
    /\ m.roc_auc = 0
    /\ IsShare(m.accuracy, Cardinality({i \in 1..Len(y) : y[i] = y_hat[i]}), Len(y))
    /\ IF \A i \in 1..Len(y) : y_hat[i] = 0
       THEN m.precision = 0
       ELSE IsShare(m.precision,
                    Cardinality({i \in 1..Len(y) : y[i] = 1 /\ y_hat[i] = 1}),
                    Cardinality({i \in 1..Len(y) : y_hat[i] = 1}))
    /\ IF \A i \in 1..Len(y) : y[i] = 0
       THEN m.recall = 0
       ELSE IsShare(m.recall,
                    Cardinality({i \in 1..Len(y) : y[i] = 1 /\ y_hat[i] = 1}),
                    Cardinality({i \in 1..Len(y) : y[i] = 1}))

\* C21: when the labels of an evaluated set hold one class only, ROC-AUC is
\* recorded as 0 and nothing is raised; accuracy, precision and recall are
\* the shares of the confusion counts, precision and recall being 0 when
\* their denominator is 0. This holds for evaluate_model and for the folds
\* of walk_forward_validation.
C21_SingleClassMetrics ==
    /\ (ev_metrics # <<>> /\ SingleClass(ev_y)) =>
          SingleClassCase(ev_metrics, ev_y, threshold_predict(ev_proba, EvalThreshold))
    /\ \A k \in 1..Len(ev_results) :
          SingleClass(ev_folds[ev_results[k].fold].y_test) =>
              SingleClassCase(ev_results[k].classification,
                              ev_folds[ev_results[k].fold].y_test,
                              threshold_predict(ev_folds[ev_results[k].fold].y_pred_proba,
                                                TradeThreshold))

\* a run that scored a fold without positive labels and a fold without
\* negative labels and without positive predictions
C21_Witness ==
    \E k1, k2 \in 1..Len(ev_results) :
        /\ \A i \in 1..ev_results[k1].test_size :
              ev_folds[ev_results[k1].fold].y_test[i] = 0
        /\ ev_results[k1].classification.recall = 0
        /\ \A i \in 1..ev_results[k2].test_size :
              /\ ev_folds[ev_results[k2].fold].y_test[i] = 1
              /\ ev_folds[ev_results[k2].fold].y_pred_proba[i] < TradeThreshold
        /\ ev_results[k2].classification.precision = 0
        /\ ev_results[k1].classification.roc_auc = 0
        /\ ev_results[k2].classification.roc_auc = 0

\* C22: the accuracy, precision, recall and F1 score a fold of
\* walk_forward_validation records are those of the predictions at the
\* threshold 0.5.
C22_FoldMetricsAtHalf ==
    \A k \in 1..Len(ev_results) :
        ev_results[k].classification =
            evaluate_model(ev_folds[ev_results[k].fold].y_test,
                           ev_folds[ev_results[k].fold].y_pred_proba)

\* C24: every metric of a scored fold is the one the fold has when it is
\* scored alone, whatever folds were scored or left out before it.
C24_FoldsIndependent ==
    \A k \in 1..Len(ev_results) :
        /\ ev_results[k].classification = fold_classification(ev_folds[ev_results[k].fold])
        /\ ev_results[k].trading = fold_trading(ev_folds[ev_results[k].fold], ev_rng0)

\* C27: in calculate_trading_metrics exactly the bars with prediction 1 get a
\* P&L of +30 or -20 and every other bar 0; total_trades counts the bars with
\* prediction 1; win_rate is the share of those bars with a positive P&L, 0
\* when there is none; sharpe is 0 when the P&L is the same on every bar.
C27_TradingMetrics ==
    ev_trading # <<>> =>
        /\ Len(ev_trading.pnl) = Len(ev_trading.prediction)
        /\ \A i \in 1..Len(ev_trading.prediction) :
              IF ev_trading.prediction[i] = 1
              THEN ev_trading.pnl[i] \in {WinPnl, 0 - LossPnl}
              ELSE ev_trading.pnl[i] = 0
        /\ ev_trading.metrics.total_trades =
              Cardinality({i \in 1..Len(ev_trading.prediction) : ev_trading.prediction[i] = 1})
        /\ IF \A i \in 1..Len(ev_trading.prediction) : ev_trading.prediction[i] # 1
           THEN ev_trading.metrics.win_rate = 0
           ELSE IsShare(ev_trading.metrics.win_rate,
                    Cardinality({i \in 1..Len(ev_trading.prediction) :
                                    ev_trading.prediction[i] = 1 /\ ev_trading.pnl[i] > 0}),
                    Cardinality({i \in 1..Len(ev_trading.prediction) :
                                    ev_trading.prediction[i] = 1}))
        /\ (\A i, j \in 1..Len(ev_trading.pnl) : ev_trading.pnl[i] = ev_trading.pnl[j])
              => ev_trading.metrics.sharpe = 0

\* a call with a winning trade, a losing trade and a bar without trade
C27_Witness ==
    /\ ev_trading # <<>>
    /\ \E i, j, k \in 1..Len(ev_trading.prediction) :
          /\ ev_trading.pnl[i] = WinPnl
          /\ ev_trading.pnl[j] = 0 - LossPnl
          /\ ev_trading.prediction[k] = 0
    /\ ev_trading.metrics.win_rate > 0
    /\ ev_trading.metrics.win_rate < FP_SCALE
    /\ ev_trading.metrics.sharpe # 0

\* C29: max_drawdown is a number not above 0, and exactly 0 when no bar is
\* predicted positive or the cumulative P&L never falls below its running
\* maximum.
C29_DrawdownNotPositive ==
    ev_trading # <<>> =>
        /\ ev_trading.metrics.max_drawdown # NaN
        /\ ev_trading.metrics.max_drawdown <= 0
        /\ (\A i \in 1..Len(ev_trading.prediction) : ev_trading.prediction[i] # 1)
              => ev_trading.metrics.max_drawdown = 0
        /\ (\A i, j \in 1..Len(ev_trading.pnl) :
               j <= i => SumUpto(ev_trading.pnl, i) >= SumUpto(ev_trading.pnl, j))
              => ev_trading.metrics.max_drawdown = 0

\* ==================================================================
\* export_onnx.py
\* ==================================================================
\* n_features: int = 14, the default of export_to_onnx and of the two
\* converters; 'n_features': 14 in the metadata of the session configuration
DefaultNFeatures == 14
ConfigNFeatures == 14

\* the files of the models directory
NoPickle == [present |-> FALSE, framework |-> "None", n_features_in |-> 0]
NoScalerFile == [present |-> FALSE, n_means |-> 0, n_stds |-> 0]
NoOnnx == [present |-> FALSE, framework |-> "None", input_width |-> 0]
NoConfig == [present |-> FALSE, model_type |-> "None", n_features |-> 0]

\* what train_model.py leaves there: a model fit on the columns of
\* FEATURE_LIST_V1 and the statistics of its scaler
TrainedPickle(framework) ==
    [present |-> TRUE, framework |-> framework, n_features_in |-> Len(FEATURE_LIST_V1)]
SavedScalerFile ==
    [present |-> TRUE, n_means |-> Len(FEATURE_LIST_V1), n_stds |-> Len(FEATURE_LIST_V1)]

ModelsDirs ==
    [lgb_pkl : {NoPickle, TrainedPickle("lightgbm")},
     xgb_pkl : {NoPickle, TrainedPickle("xgboost")},
     scaler_json : {NoScalerFile, SavedScalerFile},
     onnx : {NoOnnx},
     session_config : {NoConfig}]

\* ONNXExporter.__init__
NewExporter == [model |-> NoPickle, scaler_params |-> NoScalerFile, model_type |-> "None"]

\* lines 260-278 of main: the LightGBM pickle first, then the XGBoost one
detect_model(dir) ==
    IF dir.lgb_pkl.present THEN [model_path |-> "lgb_pkl", model_type |-> "lightgbm"]
    ELSE IF dir.xgb_pkl.present THEN [model_path |-> "xgb_pkl", model_type |-> "xgboost"]
    ELSE [model_path |-> "None", model_type |-> "None"]

\* the manual usage main prints: the user picks the pickle, may leave a load
\* out, and calls export_all with its defaults
ManualCalls ==
    {[entry |-> "manual", model_path |-> p, model_type |-> t,
      load_model |-> lm, load_scaler |-> ls] :
        p \in {"lgb_pkl", "xgb_pkl"}, t \in {"lightgbm", "xgboost"},
        lm \in BOOLEAN, ls \in BOOLEAN}

MainCall ==
    [entry |-> "main", model_path |-> "None", model_type |-> "None",
     load_model |-> TRUE, load_scaler |-> TRUE]

EXInit ==
    /\ ex_models_dir \in ModelsDirs
    /\ ex_call \in {MainCall} \cup
          {c \in ManualCalls :
              /\ c.load_model => ex_models_dir[c.model_path].present
              /\ c.load_model =>
                    c.model_type = ex_models_dir[c.model_path].framework
              /\ ~c.load_model => (c.model_path = "lgb_pkl" /\ c.model_type = "lightgbm")
              /\ c.load_scaler => ex_models_dir.scaler_json.present}
    /\ ex_pc = IF ex_call.entry = "main" THEN "MAIN" ELSE "CREATED"
    /\ exporter = NewExporter
    /\ ex_error = "none"

InitEX == EXInit /\ WFIdle /\ LGIdle /\ FEIdle /\ PDIdle /\ EVIdle /\ CDIdle

\* main, lines 260-286: a model and the scaler are there
ExDetect ==
    /\ ex_pc = "MAIN"
    /\ detect_model(ex_models_dir).model_path # "None"
    /\ ex_models_dir.scaler_json.present
    /\ ex_call' = [ex_call EXCEPT
                     !.model_path = detect_model(ex_models_dir).model_path,
                     !.model_type = detect_model(ex_models_dir).model_type]
    /\ ex_pc' = "CREATED"
    /\ UNCHANGED <<wfvars, lgvars, fevars, pdvars, evvars, cdvars,
                   ex_models_dir, exporter, ex_error>>

\* main, lines 286 and 313-346: a file is missing, the usage is printed
ExUsage ==
    /\ ex_pc = "MAIN"
    /\ ~(detect_model(ex_models_dir).model_path # "None"
         /\ ex_models_dir.scaler_json.present)
    /\ ex_pc' = "USAGE"
    /\ UNCHANGED <<wfvars, lgvars, fevars, pdvars, evvars, cdvars,
                   ex_models_dir, ex_call, exporter, ex_error>>

\* load_model, lines 39-51; a user may go on without it
ExLoadModel ==
    /\ ex_pc = "CREATED"
    /\ exporter' = IF ex_call.load_model
                   THEN [exporter EXCEPT
                           !.model = ex_models_dir[ex_call.model_path],
                           !.model_type = ex_call.model_type]
                   ELSE exporter
    /\ ex_pc' = "MODEL"
    /\ UNCHANGED <<wfvars, lgvars, fevars, pdvars, evvars, cdvars,
                   ex_models_dir, ex_call, ex_error>>

\* load_scaler, lines 53-63
ExLoadScaler ==
    /\ ex_pc = "MODEL"
    /\ exporter' = IF ex_call.load_scaler
                   THEN [exporter EXCEPT !.scaler_params = ex_models_dir.scaler_json]
                   ELSE exporter
    /\ ex_pc' = "EXPORT_ALL"
    /\ UNCHANGED <<wfvars, lgvars, fevars, pdvars, evvars, cdvars,
                   ex_models_dir, ex_call, ex_error>>

\* onnxmltools.convert_lightgbm / convert_xgboost with initial_types
\* [None, n_features]: the declared width is the one that is passed; when it
\* is not the width of the model the converter may as well refuse
convert_outcomes(m, n_features) ==
    IF m.n_features_in = n_features
    THEN {[present |-> TRUE, framework |-> m.framework, input_width |-> n_features]}
    ELSE {[present |-> TRUE, framework |-> m.framework, input_width |-> n_features],
          NoOnnx}

\* export_all, line 222: self.export_to_onnx(onnx_path), n_features left to
\* its default
export_width(m) == DefaultNFeatures

\* where an exception leaves the run: main catches it (lines 307-311)
after_exception(entry) == IF entry = "main" THEN "FAILED" ELSE "RAISED"

\* export_all, lines 220-222, with export_to_onnx and the converter
ExExportOnnx ==
    /\ ex_pc = "EXPORT_ALL"
    /\ IF ~exporter.model.present \/ exporter.model_type \notin {"lightgbm", "xgboost"}
       THEN /\ ex_error' = "ValueError"
            /\ ex_pc' = after_exception(ex_call.entry)
            /\ UNCHANGED ex_models_dir
       ELSE \E out \in convert_outcomes(exporter.model, export_width(exporter.model)) :
               IF out.present
               THEN /\ ex_models_dir' = [ex_models_dir EXCEPT !.onnx = out]
                    /\ ex_pc' = "SCALER"
                    /\ UNCHANGED ex_error
               ELSE /\ ex_error' = "Exception"
                    /\ ex_pc' = after_exception(ex_call.entry)
                    /\ UNCHANGED ex_models_dir
    /\ UNCHANGED <<wfvars, lgvars, fevars, pdvars, evvars, cdvars, ex_call, exporter>>

\* export_all, lines 224-226, with export_scaler_params
ExExportScaler ==
    /\ ex_pc = "SCALER"
    /\ ex_models_dir' = IF exporter.scaler_params.present
                        THEN [ex_models_dir EXCEPT !.scaler_json = exporter.scaler_params]
                        ELSE ex_models_dir
    /\ ex_pc' = "SESSION"
    /\ UNCHANGED <<wfvars, lgvars, fevars, pdvars, evvars, cdvars,
                   ex_call, exporter, ex_error>>

\* export_all, lines 228-230, with create_session_config
ExSessionConfig ==
    /\ ex_pc = "SESSION"
    /\ ex_models_dir' = [ex_models_dir EXCEPT !.session_config =
                            [present |-> TRUE, model_type |-> exporter.model_type,
                             n_features |-> ConfigNFeatures]]
    /\ ex_pc' = "EXPORTED"
    /\ UNCHANGED <<wfvars, lgvars, fevars, pdvars, evvars, cdvars,
                   ex_call, exporter, ex_error>>

NextEX ==
    \/ ExDetect
    \/ ExUsage
    \/ ExLoadModel
    \/ ExLoadScaler
    \/ ExExportOnnx
    \/ ExExportScaler
    \/ ExSessionConfig

SpecEX == InitEX /\ [][NextEX]_vars

\* C28: after export_all with its defaults, the input width declared in the
\* ONNX file and the n_features of the session configuration are the number
\* of features the loaded model was trained on, the 15 of FEATURE_LIST_V1.
C28_ExportedWidth ==
    /\ ex_models_dir.onnx.present =>
          /\ ex_models_dir.onnx.input_width = exporter.model.n_features_in
          /\ ex_models_dir.onnx.input_width = Len(FEATURE_LIST_V1)
    /\ ex_models_dir.session_config.present =>
          /\ ex_models_dir.session_config.n_features = exporter.model.n_features_in
          /\ ex_models_dir.session_config.n_features = Len(FEATURE_LIST_V1)

\* ==================================================================
\* collect_data.py: main
\* ==================================================================
\* generate_realistic_usdjpy(num_candles=50000)
SyntheticCandles == 50000
\* candles a terminal or Yahoo may return
MaxCandles == 2

\* what the machine answers: the package is missing, the terminal does not
\* initialize, no rows come back, another exception, or rows come back
MT5Outcomes == {"ImportError", "initialize_failed", "no_data", "exception", "ok"}
YFOutcomes == {"ImportError", "no_data", "exception", "ok"}

NoFrame == [source |-> "None", rows |-> 0]

\* collect_from_mt5 / collect_from_yfinance: a DataFrame, or every failure
\* re-raised as Exception (lines 85-88, 151-154)
collect_from_mt5(env) ==
    IF env.mt5 = "ok"
    THEN [raised |-> FALSE, df |-> [source |-> "MetaTrader5", rows |-> env.candles]]
    ELSE [raised |-> TRUE, df |-> NoFrame]

collect_from_yfinance(env) ==
    IF env.yfinance = "ok"
    THEN [raised |-> FALSE, df |-> [source |-> "yfinance", rows |-> env.candles]]
    ELSE [raised |-> TRUE, df |-> NoFrame]

generate_realistic_usdjpy_frame(num_candles) ==
    [source |-> "realistic_synthetic", rows |-> num_candles]

\* mutant: the next method is tried whatever the earlier ones gave
needs_fallback_always(d) == TRUE

\* if df is None:
needs_fallback(d) == d = NoFrame

CDInit ==
    /\ cd_env \in [mt5 : MT5Outcomes, yfinance : YFOutcomes, candles : 1..MaxCandles]
    /\ cd_pc = "METHOD_1"
    /\ cd_df = NoFrame
    /\ cd_method_used = "None"
    /\ cd_attempts = <<>>
    /\ cd_saved = NoFrame

InitCD == CDInit /\ WFIdle /\ LGIdle /\ FEIdle /\ PDIdle /\ EVIdle /\ EXIdle

\* lines 344-351: method 1; an exception is printed and the run goes on
CdTryMT5 ==
    /\ cd_pc = "METHOD_1"
    /\ \E r \in {collect_from_mt5(cd_env)} :
          /\ cd_df' = IF r.raised THEN cd_df ELSE r.df
          /\ cd_method_used' = IF r.raised THEN cd_method_used ELSE "MetaTrader5"
          /\ cd_attempts' = Append(cd_attempts,
                               [source |-> "MetaTrader5", failed |-> r.raised])
    /\ cd_pc' = "METHOD_2"
    /\ UNCHANGED <<wfvars, lgvars, fevars, pdvars, evvars, exvars, cd_env, cd_saved>>

\* lines 353-361: method 2, if there is no data yet
CdTryYFinance ==
    /\ cd_pc = "METHOD_2"
    /\ needs_fallback(cd_df)
    /\ \E r \in {collect_from_yfinance(cd_env)} :
          /\ cd_df' = IF r.raised THEN cd_df ELSE r.df
          /\ cd_method_used' = IF r.raised THEN cd_method_used ELSE "yfinance"
          /\ cd_attempts' = Append(cd_attempts,
                               [source |-> "yfinance", failed |-> r.raised])
    /\ cd_pc' = "METHOD_3"
    /\ UNCHANGED <<wfvars, lgvars, fevars, pdvars, evvars, exvars, cd_env, cd_saved>>

\* line 354: there is data, method 2 is passed over
CdSkipYFinance ==
    /\ cd_pc = "METHOD_2"
    /\ ~needs_fallback(cd_df)
    /\ cd_pc' = "METHOD_3"
    /\ UNCHANGED <<wfvars, lgvars, fevars, pdvars, evvars, exvars, cd_env, cd_df,
                   cd_method_used, cd_attempts, cd_saved>>

\* lines 363-368: method 3, if there is no data yet; the generator does not
\* fail
CdSynthetic ==
    /\ cd_pc = "METHOD_3"
    /\ needs_fallback(cd_df)
    /\ cd_df' = generate_realistic_usdjpy_frame(SyntheticCandles)
    /\ cd_method_used' = "realistic_synthetic"
    /\ cd_attempts' = Append(cd_attempts,
                         [source |-> "realistic_synthetic", failed |-> FALSE])
    /\ cd_pc' = "SAVE"
    /\ UNCHANGED <<wfvars, lgvars, fevars, pdvars, evvars, exvars, cd_env, cd_saved>>

\* line 364: there is data, method 3 is passed over
CdSkipSynthetic ==
    /\ cd_pc = "METHOD_3"
    /\ ~needs_fallback(cd_df)
    /\ cd_pc' = "SAVE"
    /\ UNCHANGED <<wfvars, lgvars, fevars, pdvars, evvars, exvars, cd_env, cd_df,
                   cd_method_used, cd_attempts, cd_saved>>

\* lines 370-383: df.to_csv(output_path), the method is printed
CdSave ==
    /\ cd_pc = "SAVE"
    /\ cd_saved' = cd_df
    /\ cd_pc' = "SAVED"
    /\ UNCHANGED <<wfvars, lgvars, fevars, pdvars, evvars, exvars, cd_env, cd_df,
                   cd_method_used, cd_attempts>>

NextCD ==
    \/ CdTryMT5
    \/ CdTryYFinance
    \/ CdSkipYFinance
    \/ CdSynthetic
    \/ CdSkipSynthetic
    \/ CdSave

SpecCD == InitCD /\ [][NextCD]_vars

\* main is sequential and every call returns or raises: it runs to its end
FairSpecCD == SpecCD /\ WF_vars(NextCD)

\* the methods in the order main tries them
MethodOrder == <<"MetaTrader5", "yfinance", "realistic_synthetic">>

\* what the machine gives for a method
Available(method) ==
    CASE method = "MetaTrader5" -> cd_env.mt5 = "ok"
      [] method = "yfinance" -> cd_env.yfinance = "ok"
      [] OTHER -> TRUE

FallbackOrder ==
    /\ Len(cd_attempts) <= Len(MethodOrder)
    /\ \A k \in 1..Len(cd_attempts) :
          /\ cd_attempts[k].source = MethodOrder[k]
          /\ cd_attempts[k].failed = ~Available(MethodOrder[k])
          /\ \A j \in 1..(k - 1) : cd_attempts[j].failed

OneSourceSaved ==
    cd_pc = "SAVED" =>
        /\ cd_saved # NoFrame
        /\ cd_saved.source = cd_method_used
        /\ cd_saved.rows > 0
        /\ Cardinality({k \in 1..Len(cd_attempts) : ~cd_attempts[k].failed}) = 1
        /\ ~cd_attempts[Len(cd_attempts)].failed
        /\ cd_attempts[Len(cd_attempts)].source = cd_method_used

\* C30: main tries MetaTrader5, then yfinance, then the synthetic generator;
\* a method is tried only if every earlier one failed, a failure never stops
\* the run, and every run ends with the data of exactly one method saved and
\* that method named as the one used.
C30_SourceFallback ==
    /\ [](FallbackOrder /\ OneSourceSaved)
    /\ <>(cd_pc = "SAVED")

\* both real sources failed, in different ways, and the synthetic data was
\* saved
C30_Witness ==
    /\ cd_pc = "SAVED"
    /\ cd_env.mt5 = "ImportError" /\ cd_env.yfinance = "no_data"
    /\ Len(cd_attempts) = 3
    /\ cd_method_used = "realistic_synthetic"
    /\ cd_saved.rows = SyntheticCandles

\* ==================================================================
\* Claims about the training workflow
\* ==================================================================
Decided == pc \in {"ACCEPT", "REJECT"}
LoopOver == pc \in {"AGGREGATE", "GATE_DECISION", "ACCEPT", "REJECT"} /\ has_timestamp
SumAccuracy(r) == SumSeq([i \in 1..Len(r) |-> r[i].accuracy])
ScoredFolds == SelectSeq([i \in 1..Len(windows) |-> i],
                         LAMBDA i : Cardinality(windows[i].test) >= MinTestSamples)

\* C4 (as claimed): in every fold built, the training rows and the test rows
\* share no bar, and every test bar is strictly later than every training bar.
C4_WindowsDisjoint ==
    \A i \in 1..Len(windows) :
        /\ windows[i].train \cap windows[i].test = {}
        /\ \A a \in windows[i].train, b \in windows[i].test : df[a] < df[b]

\* C5 (as claimed): for any positive train_months and test_months, fold k+1
\* trains on a superset of fold k's training rows, and its test window starts
\* no earlier than fold k's test window ends.
C5_MonotoneAnyMonths ==
    \A i \in 1..(Len(windows) - 1) :
        /\ windows[i].train \subseteq windows[i + 1].train
        /\ windows[i + 1].test_start_date >= windows[i].test_end_date
        /\ \A a \in windows[i].test, b \in windows[i + 1].test : df[a] <= df[b]

\* C5 (amended): the same, for test_months <= train_months.
C5_Monotone == test_months <= train_months => C5_MonotoneAnyMonths

C5_Witness ==
    /\ Len(windows) >= 2
    /\ test_months = train_months
    /\ ~windows[1].skipped /\ ~windows[2].skipped

\* C6 (as claimed): in a scored fold the statistics that standardize the
\* test rows are those of the fold's training rows, and no row of the fold's
\* test window is among the rows they were computed from; the same in the
\* folds of train_with_walk_forward.
C6_NoTestStatistics ==
    /\ pc \in {"FOLD_TRAIN", "FOLD_TEST"} =>
          /\ X_test_scaled.rows = test_data
          /\ X_test_scaled.stats_rows = train_data
          /\ X_test_scaled.stats_rows \cap test_data = {}
    /\ trainer.X_val_scaled.stats_rows \cap trainer.X_val_scaled.rows = {}

\* C7: once decided, the run is in ACCEPT exactly when folds were scored and
\* their mean accuracy is at least 0.55; the final model is trained and
\* saved only in ACCEPT.
C7_GateDecision ==
    /\ Decided =>
          (pc = "ACCEPT" <=>
              (Len(results) > 0
               /\ SumAccuracy(results) >= AcceptAccuracy * Len(results)))
    /\ (twf_fold > 0 \/ trainer.scaler.fitted \/ trainer.model.fitted \/ saved.done)
          => pc = "ACCEPT"

\* the mean is exactly 0.55 and the model was saved
C7_Witness ==
    /\ saved.done
    /\ SumAccuracy(results) = AcceptAccuracy * Len(results)

\* C23: after an accepted run, scaler.json holds the means and the standard
\* deviations of the scaler re-fit on the whole dataset in the final step,
\* the one the saved model was trained with and not that of any fold, as
\* two sequences of 15 values in the order of the feature list.
C23_SavedScaler ==
    saved.done =>
        /\ Len(saved.scaler_data.means) = 15
        /\ Len(saved.scaler_data.stds) = 15
        /\ Len(FEATURE_LIST_V1) = 15
        /\ \A k \in 1..Len(FEATURE_LIST_V1) :
              /\ saved.scaler_data.means[k] =
                    [stat |-> "mean", column |-> FEATURE_LIST_V1[k], rows |-> 1..Len(df)]
              /\ saved.scaler_data.stds[k] =
                    [stat |-> "std", column |-> FEATURE_LIST_V1[k], rows |-> 1..Len(df)]
        /\ saved.model.fit_rows = 1..Len(df)
        /\ \A k \in 1..FinalSplits :
              saved.scaler_data.means[1].rows # tss_train(Len(df), FinalSplits, k)
        /\ \A k \in 1..Len(windows) :
              ~windows[k].skipped => saved.scaler_data.means[1].rows # windows[k].train

\* the files are written after every fold of train_with_walk_forward re-fit
\* the trainer's scaler
C23_Witness ==
    /\ saved.done
    /\ twf_fold = FinalSplits
    /\ saved.scaler_data.means[15].column = "regime_flag"
    /\ saved.scaler_data.stds[1].rows = 1..Len(df)
    /\ trainer.X_val_scaled.stats_rows # 1..Len(df)

\* C25: walk_forward_validation leaves the table of its caller as it was:
\* no step of the run changes the 'timestamp' column the caller holds.
C25_CallerTableUnchanged == [][timestamp_dtype' = timestamp_dtype]_vars

\* C8: with no scored fold the harness returns an empty result, the gate
\* can only reject, and no final model is trained or saved.
C8_NoScoredFolds ==
    (pc \in {"GATE_DECISION", "ACCEPT", "REJECT"} /\ results = <<>>) =>
        /\ wf_results = <<>>
        /\ pc # "ACCEPT"
        /\ pc = "GATE_DECISION" => (ENABLED GateReject /\ ~ENABLED GateAccept)
        /\ ~trainer.model.fitted /\ ~trainer.scaler.fitted /\ ~saved.done

\* every fold was built and skipped, and the run was rejected
C8_Witness ==
    /\ pc = "REJECT"
    /\ has_timestamp
    /\ Len(windows) = n_splits /\ n_splits >= 2
    /\ \A i \in 1..Len(windows) : windows[i].skipped

\* C9: a fold is skipped exactly when its test set has fewer than 100 rows;
\* a skipped fold fits no model and adds no result; folds are built one
\* after the other, all n_splits of them, and each one with at least 100
\* test rows is fit and scored.
C9_SkipDoesNotAbort ==
    /\ \A i \in 1..Len(windows) :
          /\ windows[i].fold = i
          /\ windows[i].skipped <=> Cardinality(windows[i].test) < MinTestSamples
    /\ fit_log = ScoredFolds
    /\ Len(results) <= Len(fit_log)
    /\ \A i \in 1..Len(results) : results[i].fold = fit_log[i]
    /\ LoopOver =>
          /\ Len(windows) = n_splits
          /\ Len(results) = Len(fit_log)

\* a skipped fold is followed by a scored one
C9_Witness ==
    /\ LoopOver
    /\ \E i \in 1..Len(windows), j \in 1..Len(windows) :
          /\ i < j
          /\ windows[i].skipped
          /\ \E k \in 1..Len(results) : results[k].fold = j

\* C10: the phases follow one another in the order INIT, then FOLD_TRAIN ->
\* FOLD_TEST -> FOLD_SCORE once per fold that is not skipped, then AGGREGATE,
\* then GATE_DECISION (directly from INIT when there is no timestamp
\* column), then ACCEPT or REJECT; the run reaches one of the two and never
\* leaves it.
PhaseEdges ==
    {<<"INIT", "FOLD_TRAIN">>, <<"INIT", "AGGREGATE">>,
     <<"FOLD_TRAIN", "FOLD_TEST">>, <<"FOLD_TEST", "FOLD_SCORE">>,
     <<"FOLD_SCORE", "FOLD_TRAIN">>, <<"FOLD_SCORE", "AGGREGATE">>,
     <<"AGGREGATE", "GATE_DECISION">>,
     <<"GATE_DECISION", "ACCEPT">>, <<"GATE_DECISION", "REJECT">>}

PhaseStep ==
    \/ pc' = pc
    \/ <<pc, pc'>> \in PhaseEdges
    \/ pc = "INIT" /\ pc' = "GATE_DECISION" /\ ~has_timestamp

====
